---------------------------- MODULE Spec2Model ----------------------------
(***************************************************************************)
(* Model of the lidar tree-detection system (src/lidar-system.js) and of   *)
(* its relay, LidarWebSocketServer (src/websocket-server.js):              *)
(*   - STP23LSensor.parseData            (height packet decoder)           *)
(*   - LidarSystem.processLidarData      (scan frame decoder)              *)
(*   - LidarSystem.decodeSCIP            (range value codec)               *)
(*   - LidarSystem.dbscan / expandCluster / getNeighbors                   *)
(*   - LidarSystem.fitCircle / detectTrees                                 *)
(*   - LidarSystem.startScanning / singleScan / performScan (session)      *)
(*   - STP23LSensor.performMeasurement and the height history              *)
(*   - LidarWebSocketServer: client messages, dataHistory, the file load   *)
(* Characters are modelled by their UTF-16 code unit (charCodeAt(0)),      *)
(* bytes by integers 0..255, JS strings by sequences.                      *)
(***************************************************************************)
EXTENDS Integers, Sequences, FiniteSets, TLC

VARIABLES
    rangeenc,       \* decodeSCIP: the 3-character group handed to it
    decoded,        \* decodeSCIP: its outcome, or Pending before the call
    packet,         \* parseData: the byte buffer handed to it
    measurements,   \* parseData: its outcome, or Pending before the call
    rawData,        \* processLidarData: the raw frame string
    scanResult,     \* processLidarData: its outcome, or Pending before the call
    points,         \* dbscan: the points handed to it
    dbResult,       \* dbscan: its outcome, or Pending before the call
    detectionParams,\* this.detectionParams: eps, minPoints, minRadius, maxRadius
    scanData,       \* this.scanData: the samples of the last scan or import
    trees,          \* this.trees: the detections of the last detectTrees run
    lastHandler,    \* history: the handler that last ran on scanData or trees
    isConnected,    \* this.isConnected
    isScanning,     \* this.isScanning
    port,           \* this.port is set (TRUE) or null (FALSE)
    scanInterval,   \* this.scanInterval: the id of an interval timer, or 0 for null
    timers,         \* the ids of the interval timers that are set and not cleared
    cycles,         \* the performScan calls in flight: how many wait at each await
    connectPc,      \* where connect() is: "idle" or "init" (awaiting initializeLidar)
    disconnectPc,   \* where disconnect() is: "idle" or "closing" (awaiting the port)
    lastStart,      \* history: who called performScan last, "timer" or "singleScan"
    fitPoints,      \* the argument of fitCircle
    fitted,         \* what fitCircle returned
    sensorPort,     \* STP23LSensor.port is set (TRUE) or null (FALSE)
    heightHistory,  \* STP23LSensor.heightHistory
    measurementCount, \* STP23LSensor.measurementCount
    currentHeight,  \* STP23LSensor.currentHeight
    lastRead,       \* history: what performMeasurement read, if it ran last
    run,            \* dbscan run step by step: its locals and where it is
    clients,        \* relay: this.clients, the readyState of each registered client
    dataHistory,    \* relay: this.dataHistory
    loadPc,         \* relay: "reading" while the readFile of loadDataFromFile is under way
    dataFile,       \* relay: what data/lidar_data.json holds, Null if it cannot be read
    arrived,        \* history: the records handed to addToHistory, in order
    lastRelay       \* history: the number of client messages handled, and the sender,
                    \* type and receivers of the last one if no other event came after it

codecVars  == <<rangeenc, decoded>>
packetVars == <<packet, measurements>>
frameVars  == <<rawData, scanResult>>
dbVars     == <<points, dbResult>>
detectVars == <<scanData, trees, lastHandler>>
sessionVars == <<isConnected, isScanning, port, scanInterval, timers, cycles,
                 connectPc, disconnectPc, lastStart>>
fitVars == <<fitPoints, fitted>>
heightVars == <<sensorPort, heightHistory, measurementCount, currentHeight, lastRead>>
runVars == <<run>>
relayVars == <<clients, dataHistory, loadPc, dataFile, arrived, lastRelay>>
vars == <<rangeenc, decoded, packet, measurements, rawData, scanResult,
          points, dbResult, detectionParams, scanData, trees, lastHandler,
          isConnected, isScanning, port, scanInterval, timers, cycles,
          connectPc, disconnectPc, lastStart,
          fitPoints, fitted,
          sensorPort, heightHistory, measurementCount, currentHeight, lastRead,
          run, clients, dataHistory, loadPc, dataFile, arrived, lastRelay>>

\* The value of an outcome variable before the operation has run.
Pending == [kind |-> "pending"]

\* a function call that threw
Threw == [kind |-> "threw"]

\* JS null
Null == [kind |-> "null"]

Max(a, b) == IF a >= b THEN a ELSE b

Abs(a) == IF a < 0 THEN -a ELSE a

(***************************************************************************)
(* JS string helpers used by decodeSCIP.  A string is a sequence of        *)
(* one-character strings.                                                  *)
(***************************************************************************)
RECURSIVE Bits(_)
\* Number.prototype.toString(2) of a non-negative integer: no leading zeros.
Bits(n) ==
    IF n < 2 THEN <<IF n = 1 THEN "1" ELSE "0">>
    ELSE Bits(n \div 2) \o <<IF n % 2 = 1 THEN "1" ELSE "0">>

\* Number.prototype.toString(2): a negative number is "-" followed by the
\* digits of its magnitude.
ToString2(n) == IF n < 0 THEN <<"-">> \o Bits(-n) ELSE Bits(n)

\* padStart left out: the digits are used as toString(2) gives them.
PadStartNone(s, len) == s

RECURSIVE PadStart(_, _)
\* String.prototype.padStart(len, '0'): zeros are put in front while the
\* string is shorter than len; a longer string is returned as it is.
PadStart(s, len) == IF Len(s) >= len THEN s ELSE PadStart(<<"0">> \o s, len)

RECURSIVE BinPrefixValue(_, _, _)
\* The value of the longest prefix of s[i..] made of binary digits, given
\* the value acc of the digits read so far and their number in .count.
BinPrefixValue(s, i, acc) ==
    IF i > Len(s) \/ s[i] \notin {"0", "1"} THEN acc
    ELSE BinPrefixValue(s, i + 1,
            [value |-> 2 * acc.value + (IF s[i] = "1" THEN 1 ELSE 0),
             count |-> acc.count + 1])

\* parseInt(s, 2): an optional sign, then the longest run of binary digits;
\* NaN when there is no digit.
ParseInt2(s) ==
    LET neg   == Len(s) > 0 /\ s[1] = "-"
        first == IF Len(s) > 0 /\ s[1] \in {"-", "+"} THEN 2 ELSE 1
        r     == BinPrefixValue(s, first, [value |-> 0, count |-> 0])
    IN  IF r.count = 0 THEN [nan |-> TRUE, value |-> 0]
        ELSE [nan |-> FALSE, value |-> IF neg THEN -r.value ELSE r.value]

\* '0'.charCodeAt(0)
CHAR_0 == 48

\* '!'.charCodeAt(0)
CHAR_BANG == 33

\* the width every digit is padded to
DIGIT_BITS == 6

\* dig = (c.charCodeAt(0) - '!'.charCodeAt(0)) + 33;  digsub = dig - 48
DigSub(c) == ((c - CHAR_BANG) + 33) - 48

\* digsub.toString(2).padStart(6, '0')
DigBin(c) == PadStart(ToString2(DigSub(c)), DIGIT_BITS)

\* What a call that returns the number v looks like.
Returned(v) == [kind |-> "value", nan |-> v.nan, value |-> v.value]

(***************************************************************************)
(* LidarSystem.decodeSCIP(rangeenc)                                        *)
(***************************************************************************)
\* The 2-character branch: parseInt(dig1bin + dig2bin, 2) of the last two
\* characters.
DecodeTwo(enc) == Returned(ParseInt2(DigBin(enc[2]) \o DigBin(enc[3])))

\* The 3-character branch: parseInt(dig1bin + dig2bin + dig3bin, 2).
DecodeThree(enc) ==
    Returned(ParseInt2(DigBin(enc[1]) \o DigBin(enc[2]) \o DigBin(enc[3])))

\* decodeSCIP with the digits of the 2-character branch in the other order.
decodeSCIPSwapped(enc) ==
    IF enc[1] = CHAR_0 /\ enc[2] = CHAR_0 /\ enc[3] = CHAR_0
    THEN Returned([nan |-> FALSE, value |-> 0])
    ELSE IF enc[1] = CHAR_0
    THEN Returned(ParseInt2(DigBin(enc[3]) \o DigBin(enc[2])))
    ELSE DecodeThree(enc)

decodeSCIP(enc) ==
    IF enc[1] = CHAR_0 /\ enc[2] = CHAR_0 /\ enc[3] = CHAR_0
    THEN Returned([nan |-> FALSE, value |-> 0])
    ELSE IF enc[1] = CHAR_0
    THEN Returned(ParseInt2(DigBin(enc[2]) \o DigBin(enc[3])))
    ELSE Returned(ParseInt2(DigBin(enc[1]) \o DigBin(enc[2]) \o DigBin(enc[3])))

(***************************************************************************)
(* STP23LSensor.parseData(data)                                            *)
(***************************************************************************)
\* STP23L_CONSTANTS.PACKET_SIZE
PACKET_SIZE == 195

\* STP23L_CONSTANTS.START_BYTE (0xAA)
START_BYTE == 170

\* STP23L_CONSTANTS.DATA_START_INDEX
DATA_START_INDEX == 10

\* STP23L_CONSTANTS.DATA_INTERVAL
DATA_INTERVAL == 15

\* STP23L_CONSTANTS.DATA_FIELDS: the offset of each field in a record
DATA_FIELDS ==
    [DISTANCE_LOW |-> 0, DISTANCE_HIGH |-> 1, NOISE_LOW |-> 2, NOISE_HIGH |-> 3,
     PEAK_1 |-> 4, PEAK_2 |-> 5, PEAK_3 |-> 6, PEAK_4 |-> 7, CONFIDENCE |-> 8,
     INTG_1 |-> 9, INTG_2 |-> 10, INTG_3 |-> 11, INTG_4 |-> 12,
     REFTOF_LOW |-> 13, REFTOF_HIGH |-> 14]

\* data[k] of a JS array: k counts from 0
At(data, k) == data[k + 1]

\* The top byte of a 32-bit word read as two's complement: the JS bit
\* operators give a signed 32-bit integer, so bit 31 is the sign.
SignedByte(b) == IF b >= 128 THEN b - 256 ELSE b

\* (high << 8) | low of two bytes (always within 0..65535)
Pack16(high, low) == high * 256 + low

\* (b1 << 24) | (b2 << 16) | (b3 << 8) | b4 of four bytes, as ToInt32 gives it
Pack32(b1, b2, b3, b4) == SignedByte(b1) * 16777216 + b2 * 65536 + b3 * 256 + b4

\* The measurement the loop body pushes for the record at offset i.
ParseRecord(data, i, fields) ==
    [distance   |-> Pack16(At(data, i + fields.DISTANCE_HIGH), At(data, i + fields.DISTANCE_LOW)),
     noise      |-> Pack16(At(data, i + fields.NOISE_HIGH), At(data, i + fields.NOISE_LOW)),
     peak       |-> Pack32(At(data, i + fields.PEAK_1), At(data, i + fields.PEAK_2),
                           At(data, i + fields.PEAK_3), At(data, i + fields.PEAK_4)),
     confidence |-> At(data, i + fields.CONFIDENCE),
     intg       |-> Pack32(At(data, i + fields.INTG_1), At(data, i + fields.INTG_2),
                           At(data, i + fields.INTG_3), At(data, i + fields.INTG_4)),
     reftof     |-> Pack16(At(data, i + fields.REFTOF_HIGH), At(data, i + fields.REFTOF_LOW))]

RECURSIVE ParseLoop(_, _, _)
\* for (i = DATA_START_INDEX; i < data.length; i += DATA_INTERVAL)
\*     if (i + DATA_INTERVAL < data.length) measurements.push(...)
ParseLoop(data, i, acc) ==
    IF ~(i < Len(data)) THEN acc
    ELSE ParseLoop(data, i + DATA_INTERVAL,
            IF i + DATA_INTERVAL < Len(data)
            THEN Append(acc, ParseRecord(data, i, DATA_FIELDS))
            ELSE acc)

\* parseData without the test of the start byte.
parseDataUnframed(data) ==
    [kind |-> "list", list |-> ParseLoop(data, DATA_START_INDEX, <<>>)]

\* parseData: null on a wrong start byte (data[0] of an empty buffer is
\* undefined, which is not START_BYTE either), else the measurement list.
parseData(data) ==
    IF Len(data) = 0 \/ At(data, 0) # START_BYTE THEN Null
    ELSE [kind |-> "list", list |-> ParseLoop(data, DATA_START_INDEX, <<>>)]

(***************************************************************************)
(* LidarSystem.processLidarData(rawData) and its helpers                   *)
(***************************************************************************)
\* LIDAR_CONSTANTS.EXPECTED_DATA_SIZE
EXPECTED_DATA_SIZE == 2134

\* LIDAR_CONSTANTS.START_ANGLE (degrees)
START_ANGLE == -120

\* LIDAR_CONSTANTS.TOTAL_POINTS
TOTAL_POINTS == 682

\* the offset of the marker character: data[12]
MARKER_OFFSET == 12

\* reorganizeRangeData: the number of blocks, j = 0..31
BLOCK_COUNT == 32

\* reorganizeRangeData: the distance between two blocks, 66 * j
BLOCK_STRIDE == 66

\* reorganizeRangeData: start = 1 + 66 * j
BLOCK_FIRST == 1

\* reorganizeRangeData: end = 64 + 66 * j
BLOCK_END == 64

\* encodeDistanceData: the characters of one group
GROUP_SIZE == 3

Min(a, b) == IF a <= b THEN a ELSE b

\* String.prototype.substring(a, b): both ends are clamped to 0..length and
\* exchanged when a > b; the end is exclusive.
Substring(s, a, b) ==
    LET ca == Min(Max(a, 0), Len(s))
        cb == Min(Max(b, 0), Len(s))
    IN  SubSeq(s, Min(ca, cb) + 1, Max(ca, cb))

\* The offsets of startChar after MARKER_OFFSET only.
findStartIndicesAfter(data, startChar) ==
    LET hits == {i \in (MARKER_OFFSET + 1)..(Len(data) - 1) : At(data, i) = startChar}
        Nth[k \in 1..Cardinality(hits)] ==
            CHOOSE i \in hits : Cardinality({h \in hits : h < i}) = k - 1
    IN  [k \in 1..Cardinality(hits) |-> Nth[k]]

\* findStartIndices: the offsets (from 0) of startChar in data, ascending
findStartIndices(data, startChar) ==
    LET hits == {i \in 0..(Len(data) - 1) : At(data, i) = startChar}
        Nth[k \in 1..Cardinality(hits)] ==
            CHOOSE i \in hits : Cardinality({h \in hits : h < i}) = k - 1
    IN  [k \in 1..Cardinality(hits) |-> Nth[k]]

RECURSIVE ReorganizeLoop(_, _, _)
\* for (j = 0; j < 32; j++) { start = 1 + 66j; end = 64 + 66j;
\*     if (end <= rangedata.length) onlyrangedata += substring(start, end) }
ReorganizeLoop(rangedata, j, acc) ==
    IF j >= BLOCK_COUNT THEN acc
    ELSE ReorganizeLoop(rangedata, j + 1,
            IF BLOCK_END + BLOCK_STRIDE * j <= Len(rangedata)
            THEN acc \o Substring(rangedata, BLOCK_FIRST + BLOCK_STRIDE * j,
                                  BLOCK_END + BLOCK_STRIDE * j)
            ELSE acc)

reorganizeRangeData(rangedata) == ReorganizeLoop(rangedata, 0, <<>>)

\* encodeDistanceData: floor(length / 3) groups of three characters
encodeDistanceData(onlyrangedata) ==
    [i \in 1..(Len(onlyrangedata) \div GROUP_SIZE) |->
        <<onlyrangedata[GROUP_SIZE * (i - 1) + 1],
          onlyrangedata[GROUP_SIZE * (i - 1) + 2],
          onlyrangedata[GROUP_SIZE * (i - 1) + 3]>>]

\* decodeDistanceData: decodeSCIP of every group, in order; an exception of
\* decodeSCIP is not caught here.
decodeDistanceData(encodeddist) ==
    LET outs == [k \in 1..Len(encodeddist) |-> decodeSCIP(encodeddist[k])]
    IN  IF \E k \in 1..Len(outs) : outs[k].kind = "threw" THEN Threw
        ELSE [kind |-> "ranges",
              ranges |-> [k \in 1..Len(outs) |-> [nan |-> outs[k].nan, value |-> outs[k].value]]]

\* LIDAR_CONSTANTS.END_ANGLE (degrees)
END_ANGLE == 120

\* The angles spread over a full turn: 360 * i / TOTAL_POINTS.
convertToCoordinatesFullTurn(ranges) ==
    [k \in 1..Len(ranges) |->
        [index    |-> k - 1,
         angleNum |-> START_ANGLE * TOTAL_POINTS + 360 * (k - 1),
         nan      |-> ranges[k].nan,
         distance |-> ranges[k].value]]

\* convertToCoordinates: one sample per range, none dropped.  The angle of
\* sample i (from 0) is (START_ANGLE + 240 * i / TOTAL_POINTS) degrees, kept
\* here as the exact numerator over TOTAL_POINTS.  x = distance * cos(angle)
\* and y = distance * sin(angle) are functions of these two fields and are
\* not carried.
convertToCoordinates(ranges) ==
    [k \in 1..Len(ranges) |->
        [index    |-> k - 1,
         angleNum |-> START_ANGLE * TOTAL_POINTS + 240 * (k - 1),
         nan      |-> ranges[k].nan,
         distance |-> ranges[k].value]]

processLidarData(raw) ==
    IF Len(raw) < EXPECTED_DATA_SIZE THEN Threw
    ELSE LET data         == Substring(raw, 0, EXPECTED_DATA_SIZE)
             startChar    == At(data, MARKER_OFFSET)
             startIndices == findStartIndices(data, startChar)
         IN  IF Len(startIndices) < 3 THEN Threw
             ELSE LET rangedata     == Substring(data, startIndices[3] + 1, Len(data) - 1)
                      onlyrangedata == reorganizeRangeData(rangedata)
                      encodeddist   == encodeDistanceData(onlyrangedata)
                      ranges        == decodeDistanceData(encodeddist)
                  IN  IF ranges.kind = "threw" THEN Threw
                      ELSE [kind |-> "samples",
                            samples |-> convertToCoordinates(ranges.ranges)]

(***************************************************************************)
(* LidarSystem.dbscan(points) with getNeighbors and expandCluster.         *)
(* A point is a record with integer fields x and y; points are named by    *)
(* their place in the input (from 1 here, from 0 in the code), which is    *)
(* what tells two point objects with equal coordinates apart.  A cluster   *)
(* is the sequence of the places of the points pushed to it.               *)
(***************************************************************************)
\* Math.sqrt(dx^2 + dy^2) <= eps.  With integer coordinates and an integer
\* eps the comparison of the squares decides it exactly; the square root is
\* never negative, so nothing lies within a negative eps.
WithinEps(p, q, eps) ==
    /\ eps >= 0
    /\ (p.x - q.x) * (p.x - q.x) + (p.y - q.y) * (p.y - q.y) <= eps * eps

RECURSIVE NeighborLoop(_, _, _, _, _)
\* points.forEach((otherPoint, otherIndex) => ...) of getNeighbors
NeighborLoop(pts, index, eps, otherIndex, acc) ==
    IF otherIndex > Len(pts) THEN acc
    ELSE NeighborLoop(pts, index, eps, otherIndex + 1,
            IF index = otherIndex THEN acc
            ELSE IF WithinEps(pts[index], pts[otherIndex], eps)
                 THEN Append(acc, otherIndex)
                 ELSE acc)

\* The neighbourhood with the point itself counted in.
getNeighborsWithSelf(pts, index, eps) ==
    LET RECURSIVE Loop(_, _)
        Loop(otherIndex, acc) ==
            IF otherIndex > Len(pts) THEN acc
            ELSE Loop(otherIndex + 1,
                    IF WithinEps(pts[index], pts[otherIndex], eps)
                    THEN Append(acc, otherIndex) ELSE acc)
    IN  Loop(1, <<>>)

\* getNeighbors(points, index): the other points within eps, in input order
getNeighbors(pts, index, eps) == NeighborLoop(pts, index, eps, 1, <<>>)

\* noise.has(neighborIndex) left out: every processed entry is pushed.
NotNoiseAlways(noise, neighborIndex) == TRUE

\* !noise.has(neighborIndex)
NotNoise(noise, neighborIndex) == neighborIndex \notin noise

\* Every neighbourhood is appended, dense or not.
GrowsAlways(newNeighbors, minPoints) == TRUE

\* newNeighbors.length >= this.detectionParams.minPoints
Grows(newNeighbors, minPoints) == Len(newNeighbors) >= minPoints

\* The visited test left out: every work-list entry counts as a first visit.
FreshAlways(visited, neighborIndex) == TRUE

\* !visited.has(neighborIndex)
Fresh(visited, neighborIndex) == neighborIndex \notin visited

RECURSIVE ExpandLoop(_, _, _, _, _, _, _)
\* expandCluster: while (i < neighbors.length) over the growing work-list.
\* Gives the cluster and the visited set it leaves behind.
ExpandLoop(pts, eps, minPoints, neighbors, i, st, noise) ==
    IF ~(i <= Len(neighbors)) THEN st
    ELSE LET neighborIndex == neighbors[i]
             fresh         == neighborIndex \notin st.visited
             newNeighbors  == getNeighbors(pts, neighborIndex, eps)
             grown         == IF fresh /\ Grows(newNeighbors, minPoints)
                              THEN neighbors \o newNeighbors
                              ELSE neighbors
             visited2      == IF fresh THEN st.visited \cup {neighborIndex}
                              ELSE st.visited
             cluster2      == IF NotNoise(noise, neighborIndex)
                              THEN Append(st.cluster, neighborIndex)
                              ELSE st.cluster
         IN  ExpandLoop(pts, eps, minPoints, grown, i + 1,
                        [cluster |-> cluster2, visited |-> visited2], noise)

expandCluster(pts, eps, minPoints, neighbors, cluster, visited, noise) ==
    ExpandLoop(pts, eps, minPoints, neighbors, 1,
               [cluster |-> cluster, visited |-> visited], noise)

RECURSIVE DbscanLoop(_, _, _, _, _)
\* points.forEach((point, index) => ...) of dbscan
DbscanLoop(pts, eps, minPoints, index, st) ==
    IF index > Len(pts) THEN st
    ELSE IF index \in st.visited
    THEN DbscanLoop(pts, eps, minPoints, index + 1, st)
    ELSE LET visited1  == st.visited \cup {index}
             neighbors == getNeighbors(pts, index, eps)
         IN  IF Len(neighbors) < minPoints
             THEN DbscanLoop(pts, eps, minPoints, index + 1,
                     [clusters |-> st.clusters, visited |-> visited1,
                      noise |-> st.noise \cup {index}])
             ELSE LET e == expandCluster(pts, eps, minPoints, neighbors,
                                         <<index>>, visited1, st.noise)
                  IN  DbscanLoop(pts, eps, minPoints, index + 1,
                          [clusters |-> Append(st.clusters, e.cluster),
                           visited |-> e.visited, noise |-> st.noise])

\* dbscan(points): the clusters it returns, with the noise and visited sets
\* it held when it returned.
dbscan(pts, eps, minPoints) ==
    DbscanLoop(pts, eps, minPoints, 1,
               [clusters |-> <<>>, visited |-> {}, noise |-> {}])

(***************************************************************************)
(* LidarSystem.fitCircle(points) and LidarSystem.detectTrees().            *)
(* The moments and the determinant are integers (the coordinates are);     *)
(* the centre and the radius, floating-point numbers in the code, are      *)
(* fixed-point numbers here: integers counting 1/FIXED_SCALE, rounded      *)
(* down.                                                                   *)
(***************************************************************************)
\* The fixed-point numbers count hundredths.
FIXED_SCALE == 100

\* LIDAR_CONSTANTS.MIN_RANGE, the scanParams.minRange of the constructor
MIN_RANGE == 20

\* LIDAR_CONSTANTS.MAX_RANGE, the scanParams.maxRange of the constructor
MAX_RANGE == 5500

RECURSIVE SqrtSearch(_, _, _)
\* The largest r in lo..hi with r * r <= n, by bisection.
SqrtSearch(n, lo, hi) ==
    IF lo >= hi THEN lo
    ELSE LET mid == (lo + hi + 1) \div 2
         IN  IF mid * mid <= n THEN SqrtSearch(n, mid, hi)
             ELSE SqrtSearch(n, lo, mid - 1)

\* The square root rounded up past the next integer.
SqrtAbove(n) == SqrtSearch(n, 0, 32767) + 1

\* Math.sqrt, rounded down to an integer (n < 2^30)
Sqrt(n) == SqrtSearch(n, 0, 32767)

RECURSIVE SumFrom(_, _)
\* The sum of the numbers vals[k], vals[k + 1], ...
SumFrom(vals, k) == IF k > Len(vals) THEN 0 ELSE vals[k] + SumFrom(vals, k + 1)

\* points.forEach(point => { sum += F(point) })
SumOver(pts, F(_)) == SumFrom([k \in 1..Len(pts) |-> F(pts[k])], 1)

\* The circle fitCircle returns once the centre is known: the radius is the
\* mean distance of the points to the centre.
CircleAround(pts, centerX, centerY) ==
    LET Dist(p) == Sqrt((p.x * FIXED_SCALE - centerX) * (p.x * FIXED_SCALE - centerX)
                        + (p.y * FIXED_SCALE - centerY) * (p.y * FIXED_SCALE - centerY))
    IN  [kind   |-> "circle",
         center |-> [x |-> centerX, y |-> centerY],
         radius |-> SumOver(pts, Dist) \div Len(pts)]

\* The determinant with the sign of B * B turned.
DetSum(A, B, C) == A * C + B * B

\* det = A * C - B * B
Det(A, B, C) == A * C - B * B

fitCircle(pts) ==
    IF Len(pts) < 3 THEN Null
    ELSE LET X(p)   == p.x
             Y(p)   == p.y
             X2(p)  == p.x * p.x
             Y2(p)  == p.y * p.y
             XY(p)  == p.x * p.y
             X3(p)  == p.x * p.x * p.x
             Y3(p)  == p.y * p.y * p.y
             XY2(p) == p.x * p.y * p.y
             X2Y(p) == p.x * p.x * p.y
             n      == Len(pts)
             sumX   == SumOver(pts, X)
             sumY   == SumOver(pts, Y)
             sumX2  == SumOver(pts, X2)
             sumY2  == SumOver(pts, Y2)
             sumXY  == SumOver(pts, XY)
             sumX3  == SumOver(pts, X3)
             sumY3  == SumOver(pts, Y3)
             sumXY2 == SumOver(pts, XY2)
             sumX2Y == SumOver(pts, X2Y)
             A      == n * sumX2 - sumX * sumX
             B      == n * sumXY - sumX * sumY
             C      == n * sumY2 - sumY * sumY
             \* D and E carry the factor 0.5: twoD = 2 * D, twoE = 2 * E
             twoD   == n * sumXY2 - sumX * sumY2 + n * sumX3 - sumX * sumX2
             twoE   == n * sumX2Y - sumY * sumX2 + n * sumY3 - sumY * sumY2
             det    == Det(A, B, C)
         IN  \* Math.abs(det) < 1e-10: of an integer, det = 0
             IF det = 0 THEN Null
             ELSE CircleAround(pts,
                    ((twoD * C - B * twoE) * FIXED_SCALE) \div (2 * det),
                    ((A * twoE - B * twoD) * FIXED_SCALE) \div (2 * det))

\* The range filter with both bounds let in.
RECURSIVE FilterValidClosed(_, _)
FilterValidClosed(data, k) ==
    IF k > Len(data) THEN <<>>
    ELSE (IF data[k].distance >= MIN_RANGE /\ data[k].distance <= MAX_RANGE
          THEN <<data[k]>> ELSE <<>>) \o FilterValidClosed(data, k + 1)

\* scanData.filter(point => point.distance > minRange && point.distance < maxRange)
RECURSIVE FilterValid(_, _)
FilterValid(data, k) ==
    IF k > Len(data) THEN <<>>
    ELSE (IF data[k].distance > MIN_RANGE /\ data[k].distance < MAX_RANGE
          THEN <<data[k]>> ELSE <<>>) \o FilterValid(data, k + 1)

\* The point objects of a cluster of places of pts.
ClusterPoints(pts, cluster) == [k \in 1..Len(cluster) |-> pts[cluster[k]]]

\* The lower bound left out of the acceptance test.
RadiusAcceptedNoMin(circle, params) ==
    circle # Null /\ circle.radius <= params.maxRadius * FIXED_SCALE

\* circle && circle.radius >= minRadius && circle.radius <= maxRadius
RadiusAccepted(circle, params) ==
    /\ circle # Null
    /\ circle.radius >= params.minRadius * FIXED_SCALE
    /\ circle.radius <= params.maxRadius * FIXED_SCALE

\* The tree detectTrees pushes for an accepted cluster.
TreeOf(circle, cluster) ==
    [center |-> circle.center, radius |-> circle.radius,
     diameter |-> circle.radius * 2, points |-> cluster]

RECURSIVE FitClusters(_, _, _, _)
\* clusters.forEach((cluster, index) => ...) of detectTrees
FitClusters(pts, clusters, c, params) ==
    IF c > Len(clusters) THEN <<>>
    ELSE LET cluster == ClusterPoints(pts, clusters[c])
             circle  == IF Len(cluster) >= params.minPoints
                        THEN fitCircle(cluster) ELSE Null
         IN  (IF Len(cluster) >= params.minPoints /\ RadiusAccepted(circle, params)
              THEN <<TreeOf(circle, cluster)>> ELSE <<>>)
             \o FitClusters(pts, clusters, c + 1, params)

\* detectTrees returns before it touches this.trees: no scan data, or fewer
\* valid points than minPoints.
DetectReturnsEarly(data, params) ==
    \/ Len(data) = 0
    \/ Len(FilterValid(data, 1)) < params.minPoints

\* this.trees after detectTrees(), given this.trees before it
detectTrees(data, params, oldTrees) ==
    IF DetectReturnsEarly(data, params) THEN oldTrees
    ELSE LET validPoints == FilterValid(data, 1)
             clusters    == dbscan(validPoints, params.eps, params.minPoints).clusters
         IN  FitClusters(validPoints, clusters, 1, params)

(***************************************************************************)
(* LidarWebSocketServer (src/websocket-server.js): the relay.  A client is *)
(* named by the id generateClientId gave its connection; clients maps each *)
(* id to "none" (not yet given out), "OPEN" (registered, the socket open), *)
(* "CLOSING" (registered, the socket no longer open, its 'close' event not *)
(* yet handled) or "gone" (deleted from this.clients).  A record is the    *)
(* object a handler builds: its type, the sender and the timestamp, which  *)
(* is the number of the message.  The device_info message, the welcome,    *)
(* history and client_list messages and the periodic save change neither   *)
(* this.dataHistory nor who a client message is relayed to, and are left   *)
(* out.                                                                    *)
(***************************************************************************)
\* The number of client ids the relay hands out.
MaxClients == 2

\* The number of client messages of a run.
MaxMessages == 2

\* The ids generateClientId gives; an id is given to one connection only.
ClientIds == 1..MaxClients

\* this.maxHistorySize.  The relay keeps 1000 records; the model keeps as
\* many as this bound says, so that a run of a few messages evicts.
maxHistorySize == 1

\* this.dataHistory.slice(-n)
SliceLast(history, n) ==
    IF Len(history) <= n THEN history
    ELSE SubSeq(history, Len(history) - n + 1, Len(history))

\* addToHistory(data): push, then cut to the last maxHistorySize records
addToHistory(history, data) ==
    LET pushed == Append(history, data)
    IN  IF Len(pushed) > maxHistorySize
        THEN SliceLast(pushed, maxHistorySize)
        ELSE pushed

\* broadcast(data): every registered client whose socket is open, the
\* sender among them.
broadcast(senderId) == {c \in ClientIds : clients[c] = "OPEN"}

\* broadcastToOthers(senderId, data): the clients sendToClient is called
\* for, each of which is sent the data as its socket is open
broadcastToOthers(senderId) ==
    {c \in ClientIds : c # senderId /\ clients[c] = "OPEN"}

\* The object handleScanData, handleTreeData, handleHeightData and
\* handleStatusUpdate build from a message (the payload is left out)
RelayRecord(type, clientId, n) == [type |-> type, clientId |-> clientId, timestamp |-> n]

(***************************************************************************)
(* Inputs                                                                  *)
(***************************************************************************)
\* How far around each anchor code the characters of a group are drawn.
CodeWindow == 1

\* The codes the groups are drawn around: the first code whose digit prints
\* with a sign and six bits (digit -32), '0' (digit 0), two digits with mixed
\* bits (21 = 010101b, 42 = 101010b) and the last 6-bit digit (63).
CodeAnchors == {CHAR_0 - 32, CHAR_0, CHAR_0 + 21, CHAR_0 + 42, CHAR_0 + 63}

Codes == {c \in 0..127 : \E a \in CodeAnchors : Abs(c - a) <= CodeWindow}

Groups == {<<c1, c2, c3>> : c1 \in Codes, c2 \in Codes, c3 \in Codes}

\* The longest packet besides the nominal ones.
MaxPacketLen == 41

\* 0x00, 0x01, 0x64, 0x80, 0xFF
ByteSamples == {0, 1, 100, 128, 255}

PacketLens == (0..MaxPacketLen) \cup {PACKET_SIZE, PACKET_SIZE + DATA_START_INDEX}

\* A packet of len bytes: the start byte, a zero header, then records whose
\* distance bytes are lo and hi and whose 32-bit fields start with top; the
\* other bytes are the field number; every byte grows by step from one
\* record to the next.
MakePacket(len, start, lo, hi, top, step) ==
    [k \in 1..len |->
        IF k = 1 THEN start
        ELSE IF k <= DATA_START_INDEX THEN 0
        ELSE LET f == (k - 1 - DATA_START_INDEX) % DATA_INTERVAL
                 r == (k - 1 - DATA_START_INDEX) \div DATA_INTERVAL
                 b == CASE f = DATA_FIELDS.DISTANCE_LOW  -> lo
                        [] f = DATA_FIELDS.DISTANCE_HIGH -> hi
                        [] f = DATA_FIELDS.PEAK_1        -> top
                        [] f = DATA_FIELDS.INTG_1        -> top
                        [] OTHER                         -> f
             IN  (b + r * step) % 256]

PacketInputs ==
    {MakePacket(len, start, lo, hi, top, step) :
        len \in PacketLens, start \in {START_BYTE, 85},
        lo \in ByteSamples, hi \in ByteSamples, top \in {0, 128}, step \in {0, 1}}

\* '\n'.charCodeAt(0): the character the sensor ends every line with
CHAR_LF == 10

\* 'P': a header character that is no line end
CHAR_P == CHAR_0 + 32

\* How far the frame lengths are drawn around EXPECTED_DATA_SIZE.
LenSlack == 1

\* The offset of the third line end in a frame whose third line end is
\* followed by 32 blocks of 66 characters and one last character.
WellFormedThird == EXPECTED_DATA_SIZE - 1 - BLOCK_COUNT * BLOCK_STRIDE - 1

\* A frame of len characters.  Line ends stand at offset 12, at offset 16
\* when nmark >= 2 and at offset third when nmark >= 3; the payload follows
\* offset third: blocks of 66 characters, each ended by a line end when
\* blockLF, holding fill at every third place and the digits 0..63 in turn
\* elsewhere; the last character is a line end when nmark >= 3.
MakeFrame(len, nmark, third, fill, blockLF) ==
    [k \in 1..len |->
        LET o == k - 1
            q == o - (third + 1)
        IN  IF o = MARKER_OFFSET THEN CHAR_LF
            ELSE IF o = 16 /\ nmark >= 2 THEN CHAR_LF
            ELSE IF o = third /\ nmark >= 3 THEN CHAR_LF
            ELSE IF o < third THEN CHAR_P
            ELSE IF o = len - 1 THEN (IF nmark >= 3 THEN CHAR_LF ELSE CHAR_P)
            ELSE IF blockLF /\ q % BLOCK_STRIDE = BLOCK_STRIDE - 1 THEN CHAR_LF
            ELSE IF q % 3 = 0 THEN fill
            ELSE CHAR_0 + (q % 64)]

FrameInputs ==
    {MakeFrame(len, nmark, third, fill, blockLF) :
        len \in (EXPECTED_DATA_SIZE - LenSlack)..(EXPECTED_DATA_SIZE + LenSlack),
        nmark \in 1..3,
        third \in ((WellFormedThird - 1)..(WellFormedThird + 2))
                   \cup {EXPECTED_DATA_SIZE},
        fill \in {CHAR_0, CHAR_0 - 1, CHAR_0 + 63, CHAR_0 + 64},
        blockLF \in BOOLEAN}

\* The detection parameters the constructor sets.
DefaultParams == [eps |-> 100, minPoints |-> 5, minRadius |-> 50, maxRadius |-> 500]

\* The grid the points of the small point sets are drawn from: 0..MaxX by 0..1.
MaxX == 1

\* The longest small point set.
MaxPoints == 4

\* The number of places on the line the long point sets lie on: 0..LineMaxX.
LineMaxX == 4

\* The longest point set on the line.
MaxLinePoints == 7

\* The values of eps and minPoints the clustering is run with.
EpsValues == {0, 1, 2}

MinPointsValues == {1, 2, 3}

Pt(x, y) == [x |-> x, y |-> y]

GridPool == {Pt(x, y) : x \in 0..MaxX, y \in 0..1}

\* All sequences over S of length at most n.
SeqsUpTo(S, n) == UNION {[1..k -> S] : k \in 0..n}

RECURSIVE Sweeps(_, _)
\* The sequences of at most n places lo..LineMaxX that never decrease.
Sweeps(lo, n) ==
    IF n = 0 THEN {<<>>}
    ELSE {<<>>} \cup
         UNION {{<<x>> \o rest : rest \in Sweeps(x, n - 1)} : x \in lo..LineMaxX}

\* The point sets on the line, in the order of a sweep along it (x never
\* decreases); several points may share a place.
LineInputs ==
    {[k \in 1..Len(xs) |-> Pt(xs[k], 0)] : xs \in Sweeps(0, MaxLinePoints)}

\* The point sets dbscan is run on: every sequence of at most MaxPoints
\* grid points in any order, and the sweeps along the line.
PointInputs == SeqsUpTo(GridPool, MaxPoints) \cup LineInputs

\* The longest point set of the step-by-step runs.
MaxRunPoints == 3

\* The point sets dbscan is run on step by step.
RunInputs == SeqsUpTo(GridPool, MaxRunPoints)

Sample(d, x, y) == [distance |-> d, x |-> x, y |-> y]

\* The samples the scans are made of, in the order of increasing angle (the
\* order of a scan): three on the circle of radius 1 around (22, 0), one
\* off it, one at distance MIN_RANGE exactly, one at MAX_RANGE exactly and
\* one at distance 0 (the group '000').  The distance is the length of
\* (x, y) rounded down.
ScanOrder ==
    <<Sample(22, 22, -1), Sample(MIN_RANGE, MIN_RANGE, 0), Sample(21, 21, 0),
      Sample(24, 24, 0), Sample(MAX_RANGE, MAX_RANGE, 0), Sample(22, 22, 1),
      Sample(0, 0, 0)>>

RECURSIVE Pick(_, _, _)
\* The samples of order at the places in keep, from place k on.
Pick(order, keep, k) ==
    IF k > Len(order) THEN <<>>
    ELSE (IF k \in keep THEN <<order[k]>> ELSE <<>>) \o Pick(order, keep, k + 1)

\* The scans: every selection of the samples, in scan order.
ScanInputs == {Pick(ScanOrder, keep, 1) : keep \in SUBSET (1..Len(ScanOrder))}

\* The values an operator types into each parameter field: the default and
\* a value of the size of the samples' coordinates.
ParamValues ==
    [eps |-> {DefaultParams.eps, 2}, minPoints |-> {DefaultParams.minPoints, 2},
     minRadius |-> {DefaultParams.minRadius, 1}, maxRadius |-> {DefaultParams.maxRadius, 1}]

\* The longest point set given to fitCircle.
MaxFitPoints == 4

\* The grid the point sets of the fits are drawn from.
FitCoords == 0..4

FitGrid == {Pt(x, y) : x \in FitCoords, y \in FitCoords}

\* The circles whose lattice points are fitted: centre and radius.
TrueCircles ==
    {[center |-> Pt(0, 0), radius |-> 5], [center |-> Pt(1, -1), radius |-> 5]}

\* The points with integer coordinates that lie exactly on circle c.
OnCircle(c) ==
    {p \in [x : (c.center.x - c.radius)..(c.center.x + c.radius),
            y : (c.center.y - c.radius)..(c.center.y + c.radius)] :
        (p.x - c.center.x) * (p.x - c.center.x)
            + (p.y - c.center.y) * (p.y - c.center.y) = c.radius * c.radius}

RECURSIVE SeqOfSet(_)
\* The elements of a finite set as a sequence, in some fixed order.
SeqOfSet(S) ==
    IF S = {} THEN <<>>
    ELSE LET e == CHOOSE e \in S : TRUE IN <<e>> \o SeqOfSet(S \ {e})

RECURSIVE SubsetsUpTo(_, _)
\* The subsets of S of at most n elements.
SubsetsUpTo(S, n) ==
    IF n = 0 THEN {{}}
    ELSE LET smaller == SubsetsUpTo(S, n - 1)
         IN  smaller \cup {T \cup {e} : T \in smaller, e \in S}

\* The point sets fitCircle is run on: every set of at most n grid points
\* or lattice points of one circle, and the sequences over three points of
\* a diagonal, in which a point may come several times.
FitInputs(n) ==
    {SeqOfSet(T) : T \in SubsetsUpTo(FitGrid, n)}
    \cup UNION {{SeqOfSet(T) : T \in SubsetsUpTo(OnCircle(c), n)} :
                  c \in TrueCircles}
    \cup SeqsUpTo({Pt(0, 0), Pt(1, 1), Pt(3, 3)}, n)

\* The longest height history.
MaxHistory == 3

\* What one read of the sensor port gives: a chunk of bytes
Bytes(data) == [kind |-> "bytes", data |-> data]

\* The reads of the height sensor: no data (the stream is done or the read
\* threw), and packets of PACKET_SIZE bytes or one byte less, with the
\* start byte or another one, whose first record holds 100 in one of its
\* two distance bytes.
SensorReads ==
    {Null} \cup
    {Bytes(MakePacket(len, start, lo, 100 - lo, 0, 1)) :
        len \in {PACKET_SIZE - 1, PACKET_SIZE}, start \in {START_BYTE, 85},
        lo \in {0, 100}}

\* The string readSerialData returns
Chars(data) == [kind |-> "chars", data |-> data]

\* What the serial read of a scan cycle gives: the read throws, or a frame
\* arrives: one character short, with the marker only twice, or well formed.
CycleReads ==
    {Threw,
     Chars(MakeFrame(EXPECTED_DATA_SIZE - 1, 3, WellFormedThird, CHAR_0, TRUE)),
     Chars(MakeFrame(EXPECTED_DATA_SIZE, 2, WellFormedThird, CHAR_0, TRUE)),
     Chars(MakeFrame(EXPECTED_DATA_SIZE, 3, WellFormedThird, CHAR_0, TRUE))}

\* Session bounds: performScan calls in flight, interval timers set at once
MaxInFlight == 2
MaxTimers == 2

(***************************************************************************)
(* Specifications.  Each decoder is a pure function: its specification     *)
(* draws the input in Init and applies the function in one action.         *)
(***************************************************************************)
CodecIdle  == rangeenc = <<>> /\ decoded = Pending

PacketIdle == packet = <<>> /\ measurements = Pending

FrameIdle  == rawData = <<>> /\ scanResult = Pending

DbIdle     == points = <<>> /\ dbResult = Pending

\* this.detectionParams as the constructor sets it
ParamsInit == detectionParams = DefaultParams

\* this.scanData and this.trees as the constructor sets them
DetectIdle == scanData = <<>> /\ trees = <<>> /\ lastHandler = "none"

\* No fit asked for yet
FitIdle == fitPoints = <<>> /\ fitted = Pending

\* The fields of the height sensor as its constructor sets them
HeightIdle ==
    /\ sensorPort = FALSE /\ heightHistory = <<>>
    /\ measurementCount = 0 /\ currentHeight = 0
    /\ lastRead = Pending

\* The locals of dbscan as it declares them, before its loop.
RunStart ==
    [pc |-> "outer", index |-> 1, visited |-> {}, noise |-> {}, clusters |-> <<>>,
     neighbors |-> <<>>, i |-> 1, cluster |-> <<>>, appended |-> <<>>]

\* No step-by-step run of dbscan.
RunIdle == run = [RunStart EXCEPT !.pc = "idle"]

\* The last event was no client message; n client messages came before it.
NoRelayAt(n) == [n |-> n, sender |-> 0, type |-> "none", to |-> {}]

\* No client message handled yet.
NoRelay == NoRelayAt(0)

\* The fields of the relay as the first lines of its constructor set them:
\* no client, no record.
RelayFields ==
    /\ clients = [c \in ClientIds |-> "none"] /\ dataHistory = <<>>
    /\ arrived = <<>> /\ lastRelay = NoRelay

\* The relay before its constructor has run.
RelayIdle == RelayFields /\ loadPc = "idle" /\ dataFile = Null

\* No performScan call in flight.
NoCycles == [write |-> 0, delay |-> 0, read |-> 0]

\* The session fields as the constructor sets them
SessionIdle ==
    /\ isConnected = FALSE /\ isScanning = FALSE /\ port = FALSE
    /\ scanInterval = 0 /\ timers = {} /\ cycles = NoCycles
    /\ connectPc = "idle" /\ disconnectPc = "idle"
    /\ lastStart = "none"

\* The contents data/lidar_data.json can have when the relay starts: none
\* (readFile fails), text that is no JSON, or what saveDataToFile of an
\* earlier run wrote: at most maxHistorySize records, here of client 0.
FileInputs ==
    {Null, Threw} \cup
    {[kind |-> "json",
      history |-> [k \in 1..len |-> RelayRecord("scan_data", 0, k - len)]] :
        len \in 0..maxHistorySize}

\* decodeSCIP(rangeenc)
DecodeSCIP ==
    /\ decoded = Pending
    /\ decoded' = decodeSCIP(rangeenc)
    /\ UNCHANGED <<rangeenc, packetVars, frameVars, dbVars, detectionParams, detectVars, sessionVars, fitVars, heightVars,
                   runVars, relayVars>>

InitCodec ==
    /\ rangeenc \in Groups /\ decoded = Pending
    /\ PacketIdle /\ FrameIdle /\ DbIdle /\ ParamsInit /\ DetectIdle /\ SessionIdle /\ FitIdle /\ HeightIdle /\ RunIdle /\ RelayIdle

NextCodec == DecodeSCIP

SpecCodec == InitCodec /\ [][NextCodec]_vars

\* The unchanged rest of a relay step.
RelayFrame ==
    UNCHANGED <<detectionParams, codecVars, packetVars, frameVars, dbVars, detectVars,
                sessionVars, fitVars, heightVars, runVars>>

\* wss.on('connection'): the client is registered under a new id.  Ids are
\* given out in order here; the code draws them at random.
ClientConnects ==
    /\ \E c \in ClientIds :
          /\ clients[c] = "none"
          /\ \A d \in ClientIds : d < c => clients[d] # "none"
          /\ clients' = [clients EXCEPT ![c] = "OPEN"]
    /\ lastRelay' = NoRelayAt(lastRelay.n)
    /\ UNCHANGED <<dataHistory, loadPc, dataFile, arrived>>
    /\ RelayFrame

\* The socket of a registered client stops being open; its 'close' event
\* is still to come.
SocketCloses ==
    /\ \E c \in ClientIds :
          /\ clients[c] = "OPEN"
          /\ clients' = [clients EXCEPT ![c] = "CLOSING"]
    /\ lastRelay' = NoRelayAt(lastRelay.n)
    /\ UNCHANGED <<dataHistory, loadPc, dataFile, arrived>>
    /\ RelayFrame

\* ws.on('close'): this.clients.delete(clientId).  The id is not given out
\* again.
ClientClosed ==
    /\ \E c \in ClientIds :
          /\ clients[c] = "CLOSING"
          /\ clients' = [clients EXCEPT ![c] = "gone"]
    /\ lastRelay' = NoRelayAt(lastRelay.n)
    /\ UNCHANGED <<dataHistory, loadPc, dataFile, arrived>>
    /\ RelayFrame

\* handleClientMessage for a message of a type that is stored and relayed:
\* handleScanData, handleTreeData and handleHeightData
HandleStored(clientId, type) ==
    /\ clients[clientId] \in {"OPEN", "CLOSING"}
    /\ lastRelay.n < MaxMessages
    /\ LET record == RelayRecord(type, clientId, lastRelay.n + 1)
       IN  /\ dataHistory' = addToHistory(dataHistory, record)
           /\ arrived' = Append(arrived, record)
           /\ lastRelay' = [n |-> lastRelay.n + 1, sender |-> clientId, type |-> type,
                            to |-> broadcastToOthers(clientId)]
    /\ UNCHANGED <<clients, loadPc, dataFile>>
    /\ RelayFrame

HandleScanData == \E c \in ClientIds : HandleStored(c, "scan_data")

HandleTreeData == \E c \in ClientIds : HandleStored(c, "tree_data")

HandleHeightData == \E c \in ClientIds : HandleStored(c, "height_data")

\* handleStatusUpdate: relayed, not stored
HandleStatusUpdate ==
    /\ \E c \in ClientIds :
          /\ clients[c] \in {"OPEN", "CLOSING"}
          /\ lastRelay.n < MaxMessages
          /\ lastRelay' = [n |-> lastRelay.n + 1, sender |-> c, type |-> "status_update",
                           to |-> broadcastToOthers(c)]
    /\ UNCHANGED <<clients, dataHistory, loadPc, dataFile, arrived>>
    /\ RelayFrame

\* case 'ping': a pong goes to the sender; nothing is stored or relayed
HandlePing ==
    /\ \E c \in ClientIds :
          /\ clients[c] \in {"OPEN", "CLOSING"}
          /\ lastRelay.n < MaxMessages
          /\ lastRelay' = [n |-> lastRelay.n + 1, sender |-> c, type |-> "ping",
                           to |-> {}]
    /\ UNCHANGED <<clients, dataHistory, loadPc, dataFile, arrived>>
    /\ RelayFrame

\* The callback of fs.readFile in loadDataFromFile: nothing on a read error
\* or on text JSON.parse rejects, else this.dataHistory = parsedData.history
LoadCompleted ==
    /\ loadPc = "reading"
    /\ loadPc' = "done"
    /\ dataHistory' = IF dataFile \in {Null, Threw} THEN dataHistory
                      ELSE dataFile.history
    /\ lastRelay' = NoRelayAt(lastRelay.n)
    /\ UNCHANGED <<clients, dataFile, arrived>>
    /\ RelayFrame

\* The relay after its constructor: setupDataPersistence has called
\* loadDataFromFile, whose readFile is under way.
InitRelay ==
    /\ RelayFields /\ loadPc = "reading" /\ dataFile \in FileInputs
    /\ ParamsInit /\ CodecIdle /\ PacketIdle /\ FrameIdle /\ DbIdle
    /\ DetectIdle /\ SessionIdle /\ FitIdle /\ HeightIdle /\ RunIdle

NextRelay ==
    \/ ClientConnects \/ SocketCloses \/ ClientClosed
    \/ HandleScanData \/ HandleTreeData \/ HandleHeightData
    \/ HandleStatusUpdate \/ HandlePing
    \/ LoadCompleted

SpecRelay == InitRelay /\ [][NextRelay]_vars

\* parseData(packet)
ParseData ==
    /\ measurements = Pending
    /\ measurements' = parseData(packet)
    /\ UNCHANGED <<packet, codecVars, frameVars, dbVars, detectionParams, detectVars, sessionVars, fitVars, heightVars,
                   runVars, relayVars>>

InitPacket ==
    /\ packet \in PacketInputs /\ measurements = Pending
    /\ CodecIdle /\ FrameIdle /\ DbIdle /\ ParamsInit /\ DetectIdle /\ SessionIdle /\ FitIdle /\ HeightIdle /\ RunIdle /\ RelayIdle

NextPacket == ParseData

SpecPacket == InitPacket /\ [][NextPacket]_vars

\* processLidarData(rawData)
ProcessLidarData ==
    /\ scanResult = Pending
    /\ scanResult' = processLidarData(rawData)
    /\ UNCHANGED <<rawData, codecVars, packetVars, dbVars, detectionParams, detectVars, sessionVars, fitVars, heightVars,
                   runVars, relayVars>>

InitFrame ==
    /\ rawData \in FrameInputs /\ scanResult = Pending
    /\ CodecIdle /\ PacketIdle /\ DbIdle /\ ParamsInit /\ DetectIdle /\ SessionIdle /\ FitIdle /\ HeightIdle /\ RunIdle /\ RelayIdle

NextFrame == ProcessLidarData

SpecFrame == InitFrame /\ [][NextFrame]_vars

\* dbscan(points) under this.detectionParams
Dbscan ==
    /\ dbResult = Pending
    /\ dbResult' = [kind |-> "clusters"] @@
                   dbscan(points, detectionParams.eps, detectionParams.minPoints)
    /\ UNCHANGED <<points, detectionParams, codecVars, packetVars, frameVars, detectVars, sessionVars, fitVars, heightVars,
                   runVars, relayVars>>

InitDbscan ==
    /\ points \in PointInputs /\ dbResult = Pending
    /\ detectionParams \in
         {[DefaultParams EXCEPT !.eps = e, !.minPoints = m] :
             e \in EpsValues, m \in MinPointsValues}
    /\ CodecIdle /\ PacketIdle /\ FrameIdle /\ DetectIdle /\ SessionIdle /\ FitIdle /\ HeightIdle /\ RunIdle /\ RelayIdle

NextDbscan == Dbscan

SpecDbscan == InitDbscan /\ [][NextDbscan]_vars

\* dbscan(points) step by step: one action for each callback of its forEach,
\* each turn of the while loop of expandCluster and each return.  run holds
\* the locals: index, visited, noise and clusters of dbscan; neighbors, i and
\* cluster of the expandCluster call under way; appended lists, in order, the
\* points whose neighbourhood was appended to a work-list.
\*
\* The forEach callback of dbscan for points[index].
RunVisit ==
    /\ run.pc = "outer" /\ run.index <= Len(points)
    /\ LET neighbors == getNeighbors(points, run.index, detectionParams.eps)
       IN  run' =
             IF run.index \in run.visited
             THEN [run EXCEPT !.index = @ + 1]
             ELSE IF Len(neighbors) < detectionParams.minPoints
             THEN [run EXCEPT !.visited = @ \cup {run.index},
                              !.noise = @ \cup {run.index},
                              !.index = @ + 1]
             ELSE [run EXCEPT !.visited = @ \cup {run.index},
                              !.pc = "expand", !.neighbors = neighbors,
                              !.cluster = <<run.index>>, !.i = 1]
    /\ UNCHANGED <<points, dbResult, detectionParams, codecVars, packetVars, frameVars,
                   detectVars, sessionVars, fitVars, heightVars, relayVars>>

\* One turn of while (i < neighbors.length) in expandCluster.
RunExpandStep ==
    /\ run.pc = "expand" /\ run.i <= Len(run.neighbors)
    /\ LET neighborIndex == run.neighbors[run.i]
           fresh         == Fresh(run.visited, neighborIndex)
           newNeighbors  == getNeighbors(points, neighborIndex, detectionParams.eps)
           grows         == fresh /\ Grows(newNeighbors, detectionParams.minPoints)
       IN  run' = [run EXCEPT
                    !.visited   = IF fresh THEN @ \cup {neighborIndex} ELSE @,
                    !.neighbors = IF grows THEN @ \o newNeighbors ELSE @,
                    !.appended  = IF grows THEN Append(@, neighborIndex) ELSE @,
                    !.cluster   = IF NotNoise(run.noise, neighborIndex)
                                  THEN Append(@, neighborIndex) ELSE @,
                    !.i         = @ + 1]
    /\ UNCHANGED <<points, dbResult, detectionParams, codecVars, packetVars, frameVars,
                   detectVars, sessionVars, fitVars, heightVars, relayVars>>

\* expandCluster returns: clusters.push(cluster), and the forEach moves on.
RunExpandReturn ==
    /\ run.pc = "expand" /\ run.i > Len(run.neighbors)
    /\ run' = [run EXCEPT !.pc = "outer", !.clusters = Append(@, run.cluster),
                          !.index = @ + 1]
    /\ UNCHANGED <<points, dbResult, detectionParams, codecVars, packetVars, frameVars,
                   detectVars, sessionVars, fitVars, heightVars, relayVars>>

\* return clusters
RunReturn ==
    /\ run.pc = "outer" /\ run.index > Len(points)
    /\ run' = [run EXCEPT !.pc = "done"]
    /\ dbResult' = [kind |-> "clusters", clusters |-> run.clusters,
                    visited |-> run.visited, noise |-> run.noise]
    /\ UNCHANGED <<points, detectionParams, codecVars, packetVars, frameVars,
                   detectVars, sessionVars, fitVars, heightVars, relayVars>>

InitRun ==
    /\ points \in RunInputs /\ dbResult = Pending /\ run = RunStart
    /\ detectionParams \in
         {[DefaultParams EXCEPT !.eps = e, !.minPoints = m] :
             e \in EpsValues, m \in MinPointsValues}
    /\ CodecIdle /\ PacketIdle /\ FrameIdle /\ DetectIdle /\ SessionIdle /\ FitIdle /\ HeightIdle
    /\ RelayIdle

NextRun == RunVisit \/ RunExpandStep \/ RunExpandReturn \/ RunReturn

\* The call runs on the one JS thread with nothing to wait for, so a step
\* that can be taken is taken.
SpecRun == InitRun /\ [][NextRun]_vars /\ WF_vars(NextRun)

\* fitCircle(points)
FitCircle ==
    /\ fitted = Pending
    /\ fitted' = fitCircle(fitPoints)
    /\ UNCHANGED <<fitPoints, detectionParams, codecVars, packetVars, frameVars,
                   dbVars, detectVars, sessionVars, heightVars, runVars, relayVars>>

InitFit ==
    /\ fitPoints \in FitInputs(MaxFitPoints) /\ fitted = Pending
    /\ ParamsInit /\ CodecIdle /\ PacketIdle /\ FrameIdle /\ DbIdle
    /\ DetectIdle /\ SessionIdle /\ HeightIdle /\ RunIdle /\ RelayIdle

NextFit == FitCircle

SpecFit == InitFit /\ [][NextFit]_vars

\* STP23LSensor.connect(): the port is granted and opened.  (A refused
\* request leaves every field of the model as it was.)
SensorConnect ==
    /\ sensorPort' = TRUE
    /\ lastRead' = Pending
    /\ UNCHANGED <<heightHistory, measurementCount, currentHeight>>
    /\ UNCHANGED <<detectionParams, codecVars, packetVars, frameVars, dbVars,
                   detectVars, sessionVars, fitVars, runVars, relayVars>>

\* STP23LSensor.disconnect(): the port is closed and forgotten
SensorDisconnect ==
    /\ sensorPort
    /\ sensorPort' = FALSE
    /\ lastRead' = Pending
    /\ UNCHANGED <<heightHistory, measurementCount, currentHeight>>
    /\ UNCHANGED <<detectionParams, codecVars, packetVars, frameVars, dbVars,
                   detectVars, sessionVars, fitVars, runVars, relayVars>>

\* The measurement performMeasurement uses: none when nothing was read,
\* when the chunk is shorter than PACKET_SIZE, when parseData returns null
\* or when it returns an empty list; else the first of the list.
FirstMeasurement(read) ==
    IF read = Null THEN Null
    ELSE IF ~(Len(read.data) >= PACKET_SIZE) THEN Null
    ELSE LET parsed == parseData(read.data)
         IN  IF parsed = Null THEN Null
             ELSE IF ~(Len(parsed.list) > 0) THEN Null
             ELSE [kind |-> "measurement", measurement |-> parsed.list[1]]

\* The entry performMeasurement pushes (its timestamp is left out)
HeightEntry(measurement) ==
    [height |-> measurement.distance, noise |-> measurement.noise,
     confidence |-> measurement.confidence]

\* STP23LSensor.performMeasurement(), from the read on
PerformMeasurement ==
    /\ sensorPort
    /\ \E read \in SensorReads :
          LET first == FirstMeasurement(read)
          IN  /\ lastRead' = read
              /\ IF first = Null
                 THEN UNCHANGED <<heightHistory, measurementCount, currentHeight>>
                 ELSE /\ Len(heightHistory) < MaxHistory
                      /\ currentHeight' = first.measurement.distance
                      /\ heightHistory' =
                            Append(heightHistory, HeightEntry(first.measurement))
                      /\ measurementCount' = measurementCount + 1
    /\ UNCHANGED sensorPort
    /\ UNCHANGED <<detectionParams, codecVars, packetVars, frameVars, dbVars,
                   detectVars, sessionVars, fitVars, runVars, relayVars>>

\* STP23LSensor.clearHeightData()
ClearHeightData ==
    /\ heightHistory' = <<>>
    /\ measurementCount' = 0
    /\ currentHeight' = 0
    /\ lastRead' = Pending
    /\ UNCHANGED sensorPort
    /\ UNCHANGED <<detectionParams, codecVars, packetVars, frameVars, dbVars,
                   detectVars, sessionVars, fitVars, runVars, relayVars>>

\* LidarSystem.resetHeightChart(): clearHeightData of the sensor, then a
\* redraw
ResetHeightChart ==
    /\ heightHistory' = <<>>
    /\ measurementCount' = 0
    /\ currentHeight' = 0
    /\ lastRead' = Pending
    /\ UNCHANGED sensorPort
    /\ UNCHANGED <<detectionParams, codecVars, packetVars, frameVars, dbVars,
                   detectVars, sessionVars, fitVars, runVars, relayVars>>

\* const dataPoints = 20
DATA_POINTS == 20

\* The entry generateTestHeightData pushes at turn i of its loop.  The
\* height is the base height of 1500 mm; the sine and the random numbers
\* added to it, and the random noise and confidence, are left out.
TestHeightEntry(i) == [height |-> 1500, noise |-> 0, confidence |-> 80]

\* LidarSystem.generateTestHeightData(): clearHeightData of the sensor, then
\* dataPoints entries pushed to its heightHistory
GenerateTestHeightData ==
    /\ heightHistory' = [i \in 1..DATA_POINTS |-> TestHeightEntry(i - 1)]
    /\ measurementCount' = 0
    /\ currentHeight' = 0
    /\ lastRead' = Pending
    /\ UNCHANGED sensorPort
    /\ UNCHANGED <<detectionParams, codecVars, packetVars, frameVars, dbVars,
                   detectVars, sessionVars, fitVars, runVars, relayVars>>

InitHeight ==
    /\ HeightIdle /\ RunIdle /\ RelayIdle
    /\ ParamsInit /\ CodecIdle /\ PacketIdle /\ FrameIdle /\ DbIdle
    /\ DetectIdle /\ SessionIdle /\ FitIdle

NextHeight ==
    \/ SensorConnect \/ SensorDisconnect \/ PerformMeasurement \/ ClearHeightData
    \/ ResetHeightChart \/ GenerateTestHeightData

SpecHeight == InitHeight /\ [][NextHeight]_vars

\* importData(): this.scanData is replaced by the points of the file;
\* this.trees is left alone.
ImportData ==
    /\ \E d \in ScanInputs : scanData' = d
    /\ lastHandler' = "importData"
    /\ UNCHANGED <<trees, detectionParams, codecVars, packetVars, frameVars, dbVars, sessionVars, fitVars, heightVars,
                   runVars, relayVars>>

\* detectTrees()
DetectTrees ==
    /\ trees' = detectTrees(scanData, detectionParams, trees)
    /\ lastHandler' = "detectTrees"
    /\ UNCHANGED <<scanData, detectionParams, codecVars, packetVars, frameVars, dbVars, sessionVars, fitVars, heightVars,
                   runVars, relayVars>>

\* clearResults()
ClearResults ==
    /\ trees' = <<>>
    /\ lastHandler' = "clearResults"
    /\ UNCHANGED <<scanData, detectionParams, codecVars, packetVars, frameVars, dbVars, sessionVars, fitVars, heightVars,
                   runVars, relayVars>>

\* The 'input' listeners of the four parameter fields: each sets its field.
SetDetectionParam ==
    /\ \E f \in DOMAIN ParamValues : \E v \in ParamValues[f] :
          detectionParams' = [detectionParams EXCEPT ![f] = v]
    /\ lastHandler' = "input"
    /\ UNCHANGED <<scanData, trees, codecVars, packetVars, frameVars, dbVars, sessionVars, fitVars, heightVars,
                   runVars, relayVars>>

InitDetect ==
    /\ DetectIdle /\ ParamsInit
    /\ CodecIdle /\ PacketIdle /\ FrameIdle /\ DbIdle /\ SessionIdle /\ FitIdle /\ HeightIdle /\ RunIdle /\ RelayIdle

NextDetect == ImportData \/ DetectTrees \/ ClearResults \/ SetDetectionParam

SpecDetect == InitDetect /\ [][NextDetect]_vars

(***************************************************************************)
(* The scanning session of one LidarSystem: connect, disconnect,           *)
(* startScanning, pauseScanning, singleScan and performScan.  Every await  *)
(* of an async method is a place where the other handlers and the timer    *)
(* callbacks run, so an async method is one action per stretch of code     *)
(* between two awaits.  The times (100 ms interval, 300 ms delay) are left *)
(* out: every order of the steps is allowed.  Calls that return at their   *)
(* first test without changing a field are not steps of the model.         *)
(***************************************************************************)

\* The number of performScan calls in flight
InFlight == cycles.write + cycles.delay + cycles.read

\* The scan a successful cycle stores (the complete scan of the detection inputs)
SessionScans == {s \in ScanInputs : Len(s) = Len(ScanOrder)}

\* cleanup(): the session is not connected and holds no scan and no tree
Cleanup ==
    /\ isConnected' = FALSE
    /\ scanData' = <<>>
    /\ trees' = <<>>

\* stopScanning() and the first lines of pauseScanning(): clearInterval
\* cancels the timer this.scanInterval names, and no other
StopScanning ==
    /\ isScanning' = FALSE
    /\ timers' = timers \ {scanInterval}
    /\ scanInterval' = 0

\* performScan() up to its first await: getRealLidarData takes the writer
\* (getWriter throws while another call holds it) and writes the command
PerformScan ==
    /\ port
    /\ cycles.write = 0
    /\ InFlight < MaxInFlight
    /\ cycles' = [cycles EXCEPT !.write = @ + 1]

\* connect() up to `await navigator.serial.requestPort()`
Connect ==
    /\ connectPc = "idle"
    /\ connectPc' = "request"
    /\ UNCHANGED <<isConnected, isScanning, port, scanInterval, timers, cycles,
                   disconnectPc, lastStart>>
    /\ UNCHANGED <<detectionParams, detectVars, codecVars, packetVars, frameVars, dbVars,
                   fitVars, heightVars, runVars, relayVars>>

\* connect(): the port is granted and assigned; open and initializeLidar start
ConnectPort ==
    /\ connectPc = "request"
    /\ port' = TRUE
    /\ connectPc' = "init"
    /\ UNCHANGED <<isConnected, isScanning, scanInterval, timers, cycles,
                   disconnectPc, lastStart>>
    /\ UNCHANGED <<detectionParams, detectVars, codecVars, packetVars, frameVars, dbVars,
                   fitVars, heightVars, runVars, relayVars>>

\* connect(): initializeLidar has returned
ConnectDone ==
    /\ connectPc = "init"
    /\ isConnected' = TRUE
    /\ connectPc' = "idle"
    /\ UNCHANGED <<isScanning, port, scanInterval, timers, cycles, disconnectPc, lastStart>>
    /\ UNCHANGED <<detectionParams, detectVars, codecVars, packetVars, frameVars, dbVars,
                   fitVars, heightVars, runVars, relayVars>>

\* connect(): one of its awaits has thrown; handleConnectionError runs cleanup
ConnectError ==
    /\ connectPc \in {"request", "init"}
    /\ Cleanup
    /\ connectPc' = "idle"
    /\ UNCHANGED <<isScanning, port, scanInterval, timers, cycles, disconnectPc, lastStart>>
    /\ UNCHANGED <<detectionParams, lastHandler, codecVars, packetVars, frameVars, dbVars,
                   fitVars, heightVars, runVars, relayVars>>

\* disconnect() up to `await this.sendLaserOffCommand()`
Disconnect ==
    /\ disconnectPc = "idle"
    /\ StopScanning
    /\ disconnectPc' = "closing"
    /\ UNCHANGED <<isConnected, port, cycles, connectPc, lastStart>>
    /\ UNCHANGED <<detectionParams, detectVars, codecVars, packetVars, frameVars, dbVars,
                   fitVars, heightVars, runVars, relayVars>>

\* disconnect() from closeSerialPort on: port.close() succeeds and the port
\* is forgotten, or it throws and the port is kept; then cleanup
DisconnectDone ==
    /\ disconnectPc = "closing"
    /\ \E closed \in BOOLEAN : port' = (port /\ ~closed)
    /\ Cleanup
    /\ disconnectPc' = "idle"
    /\ UNCHANGED <<isScanning, scanInterval, timers, cycles, connectPc, lastStart>>
    /\ UNCHANGED <<detectionParams, lastHandler, codecVars, packetVars, frameVars, dbVars,
                   fitVars, heightVars, runVars, relayVars>>

\* startScanning(): a new interval timer, whatever this.scanInterval held
StartScanning ==
    /\ isConnected
    /\ Cardinality(timers) < MaxTimers
    /\ isScanning' = TRUE
    /\ LET id == CHOOSE t \in 1..MaxTimers : t \notin timers
       IN  /\ scanInterval' = id
           /\ timers' = timers \cup {id}
    /\ UNCHANGED <<isConnected, port, cycles, connectPc, disconnectPc, lastStart>>
    /\ UNCHANGED <<detectionParams, detectVars, codecVars, packetVars, frameVars, dbVars,
                   fitVars, heightVars, runVars, relayVars>>

\* pauseScanning()
PauseScanning ==
    /\ StopScanning
    /\ UNCHANGED <<isConnected, port, cycles, connectPc, disconnectPc, lastStart>>
    /\ UNCHANGED <<detectionParams, detectVars, codecVars, packetVars, frameVars, dbVars,
                   fitVars, heightVars, runVars, relayVars>>

\* The test of the timer callback left out: every tick scans.
CallbackScansAlways(scanning) == TRUE

\* if (this.isScanning) of the timer callback
CallbackScans(scanning) == scanning

\* The callback of an interval timer that is set
TimerTick ==
    /\ \E t \in timers : CallbackScans(isScanning)
    /\ PerformScan
    /\ lastStart' = "timer"
    /\ UNCHANGED <<isConnected, isScanning, port, scanInterval, timers,
                   connectPc, disconnectPc>>
    /\ UNCHANGED <<detectionParams, detectVars, codecVars, packetVars, frameVars, dbVars,
                   fitVars, heightVars, runVars, relayVars>>

\* singleScan()
SingleScan ==
    /\ isConnected
    /\ PerformScan
    /\ lastStart' = "singleScan"
    /\ UNCHANGED <<isConnected, isScanning, port, scanInterval, timers,
                   connectPc, disconnectPc>>
    /\ UNCHANGED <<detectionParams, detectVars, codecVars, packetVars, frameVars, dbVars,
                   fitVars, heightVars, runVars, relayVars>>

\* getRealLidarData: the command is written, the writer released, the delay starts
CycleWritten ==
    /\ cycles.write > 0
    /\ cycles' = [cycles EXCEPT !.write = @ - 1, !.delay = @ + 1]
    /\ UNCHANGED <<isConnected, isScanning, port, scanInterval, timers,
                   connectPc, disconnectPc, lastStart>>
    /\ UNCHANGED <<detectionParams, detectVars, codecVars, packetVars, frameVars, dbVars,
                   fitVars, heightVars, runVars, relayVars>>

\* getRealLidarData: the delay is over, readSerialData starts reading
CycleDelayed ==
    /\ cycles.delay > 0
    /\ cycles' = [cycles EXCEPT !.delay = @ - 1, !.read = @ + 1]
    /\ UNCHANGED <<isConnected, isScanning, port, scanInterval, timers,
                   connectPc, disconnectPc, lastStart>>
    /\ UNCHANGED <<detectionParams, detectVars, codecVars, packetVars, frameVars, dbVars,
                   fitVars, heightVars, runVars, relayVars>>

\* getRealLidarData from the read on: it throws when the read throws, when
\* the frame is shorter than EXPECTED_DATA_SIZE and when processLidarData
\* throws.
CycleOutcome(read) ==
    IF read = Threw THEN Threw
    ELSE IF Len(read.data) < EXPECTED_DATA_SIZE THEN Threw
    ELSE processLidarData(read.data)

\* The reads after which getRealLidarData throws, and those after which it
\* returns a scan
FailingReads == {read \in CycleReads : CycleOutcome(read) = Threw}

DecodedReads == CycleReads \ FailingReads

\* performScan: the frame was read and decoded, the scan is stored.  (The
\* stored scan stands for the decoded one: a scan of the detection inputs.)
CycleStored ==
    /\ cycles.read > 0
    /\ DecodedReads # {}
    /\ cycles' = [cycles EXCEPT !.read = @ - 1]
    /\ \E scan \in SessionScans : scanData' = scan
    /\ lastHandler' = "performScan"
    /\ UNCHANGED trees
    /\ UNCHANGED <<isConnected, isScanning, port, scanInterval, timers,
                   connectPc, disconnectPc, lastStart>>
    /\ UNCHANGED <<detectionParams, codecVars, packetVars, frameVars, dbVars,
                   fitVars, heightVars, runVars, relayVars>>

\* A failing cycle that throws the stored scan away.
CycleFailedClearing ==
    /\ cycles.read > 0
    /\ FailingReads # {}
    /\ cycles' = [cycles EXCEPT !.read = @ - 1]
    /\ lastHandler' = "performScanFailed"
    /\ scanData' = <<>>
    /\ UNCHANGED trees
    /\ UNCHANGED <<isConnected, isScanning, port, scanInterval, timers,
                   connectPc, disconnectPc, lastStart>>
    /\ UNCHANGED <<detectionParams, codecVars, packetVars, frameVars, dbVars,
                   fitVars, heightVars, runVars, relayVars>>

\* performScan: the read or the decoder threw, the catch clause only logs
CycleFailed ==
    /\ cycles.read > 0
    /\ FailingReads # {}
    /\ cycles' = [cycles EXCEPT !.read = @ - 1]
    /\ lastHandler' = "performScanFailed"
    /\ UNCHANGED <<scanData, trees>>
    /\ UNCHANGED <<isConnected, isScanning, port, scanInterval, timers,
                   connectPc, disconnectPc, lastStart>>
    /\ UNCHANGED <<detectionParams, codecVars, packetVars, frameVars, dbVars,
                   fitVars, heightVars, runVars, relayVars>>

InitSession ==
    /\ SessionIdle /\ FitIdle /\ HeightIdle /\ RunIdle /\ RelayIdle
    /\ ParamsInit /\ DetectIdle
    /\ CodecIdle /\ PacketIdle /\ FrameIdle /\ DbIdle

NextSession ==
    \/ Connect \/ ConnectPort \/ ConnectDone \/ ConnectError
    \/ Disconnect \/ DisconnectDone
    \/ StartScanning \/ PauseScanning \/ TimerTick \/ SingleScan
    \/ CycleWritten \/ CycleDelayed \/ CycleStored \/ CycleFailed

SpecSession == InitSession /\ [][NextSession]_vars

\* The scanner is as the constructors left it: never connected, no scan,
\* no detection, the default parameters.
ScannerUntouched == SessionIdle /\ DetectIdle /\ ParamsInit

\* The page as a whole: the scanning session with the detection handlers,
\* and the height sensor.  The two devices share no field, so a step of one
\* commutes with every step of the other; the runs in which one device is
\* used at a time therefore visit every state of each device, and only
\* those runs are taken.  Scans are single scans here; the interval timer
\* of continuous scanning is the matter of SpecSession.
NextSystem ==
    \/ HeightIdle /\ Connect
    \/ HeightIdle /\ ConnectPort
    \/ HeightIdle /\ ConnectDone
    \/ HeightIdle /\ ConnectError
    \/ HeightIdle /\ Disconnect
    \/ HeightIdle /\ DisconnectDone
    \/ HeightIdle /\ SingleScan
    \/ HeightIdle /\ CycleWritten
    \/ HeightIdle /\ CycleDelayed
    \/ HeightIdle /\ CycleStored
    \/ HeightIdle /\ CycleFailed
    \/ HeightIdle /\ SetDetectionParam
    \/ HeightIdle /\ DetectTrees
    \/ ScannerUntouched /\ SensorConnect
    \/ ScannerUntouched /\ SensorDisconnect
    \/ ScannerUntouched /\ PerformMeasurement
    \/ ScannerUntouched /\ ClearHeightData

SpecSystem == InitSession /\ [][NextSystem]_vars

(***************************************************************************)
(* Claims                                                                  *)
(***************************************************************************)
\* The offset of record r (from 1) of a packet.
RecordOffset(r) == DATA_START_INDEX + DATA_INTERVAL * (r - 1)

\* C1: for every packet whose first byte is 0xAA, parseData decodes each
\* record's distance big-endian: distance = 256 * packet[o] + packet[o + 1]
\* for the record at offset o.
C1_DistanceBigEndian ==
    measurements.kind = "list" =>
        \A r \in 1..Len(measurements.list) :
            measurements.list[r].distance =
                256 * At(packet, RecordOffset(r)) + At(packet, RecordOffset(r) + 1)

\* The frame is well formed: 2134 characters, the character at offset 12
\* occurs at least 3 times, and its 3rd occurrence is followed by 32 blocks
\* of 66 characters and one last character.
WellFormedFrame(raw) ==
    /\ Len(raw) = EXPECTED_DATA_SIZE
    /\ LET idx == findStartIndices(raw, At(raw, MARKER_OFFSET))
       IN  Len(idx) >= 3 /\ idx[3] = WellFormedThird

\* C2: processLidarData on a well-formed 2134-character frame returns
\* exactly 682 samples.
C2_WellFormedGives682 ==
    (scanResult # Pending /\ WellFormedFrame(rawData)) =>
        (scanResult.kind = "samples" /\ Len(scanResult.samples) = TOTAL_POINTS)

\* The digit of a character is a 6-bit digit.
ValidDigit(c) == DigSub(c) \in 0..63

\* C8: decodeSCIP fails with a format error whenever a character of the
\* group yields a digit outside [0, 63]; it never returns a distance for
\* such a group.
C8_InvalidDigitFails ==
    (decoded # Pending /\ \E k \in 1..3 : ~ValidDigit(rangeenc[k])) =>
        decoded.kind = "threw"

\* C9: for every group whose characters all have digits in [0, 63],
\* decodeSCIP returns the MSB-first concatenation of the 6-bit digits: a
\* value in [0, 4095] for a 2-character encoding (first character '0') and
\* in [0, 262143] for a 3-character encoding; '000' decodes to 0.
C9_ValidGroupDecodes ==
    (decoded # Pending /\ \A k \in 1..3 : ValidDigit(rangeenc[k])) =>
        /\ decoded.kind = "value" /\ ~decoded.nan
        /\ IF rangeenc[1] = CHAR_0
           THEN /\ decoded.value = 64 * DigSub(rangeenc[2]) + DigSub(rangeenc[3])
                /\ decoded.value \in 0..4095
           ELSE /\ decoded.value = 4096 * DigSub(rangeenc[1])
                                   + 64 * DigSub(rangeenc[2]) + DigSub(rangeenc[3])
                /\ decoded.value \in 0..262143
        /\ (rangeenc = <<CHAR_0, CHAR_0, CHAR_0>> => decoded.value = 0)

\* C9 witness: a 3-character group with mixed digits (21, 42, 63) has been
\* decoded to 21 * 4096 + 42 * 64 + 63.
C9_Witness ==
    /\ rangeenc = <<CHAR_0 + 21, CHAR_0 + 42, CHAR_0 + 63>>
    /\ decoded # Pending
    /\ decoded.value = 88767

\* The places pushed to a cluster.
Members(cluster) == {cluster[k] : k \in 1..Len(cluster)}

\* The clusters of the result that hold point i.
ClustersOf(i) == {c \in 1..Len(dbResult.clusters) : i \in Members(dbResult.clusters[c])}

\* Point i has at least minPoints other points within eps (a core point).
IsCore(i) ==
    Cardinality({j \in 1..Len(points) :
                    j # i /\ WithinEps(points[i], points[j], detectionParams.eps)})
        >= detectionParams.minPoints

\* C3: every input point appears in at most one of the clusters dbscan
\* returns.
C3_NoOverlap ==
    dbResult # Pending =>
        \A i \in 1..Len(points) : Cardinality(ClustersOf(i)) <= 1

\* C4: when dbscan finishes, every input point is either in the noise set
\* or a member of at least one returned cluster, and never both.
C4_NoiseOrClustered ==
    dbResult # Pending =>
        \A i \in 1..Len(points) : (i \in dbResult.noise) <=> (ClustersOf(i) = {})

\* C4 witness: dbscan has finished with a point marked noise that lies
\* within eps of a core point which is a member of a (later) cluster.
C4_Witness ==
    /\ dbResult # Pending
    /\ \E i \in dbResult.noise : \E j \in 1..Len(points) :
          /\ j > i /\ IsCore(j) /\ ClustersOf(j) # {}
          /\ WithinEps(points[i], points[j], detectionParams.eps)
          /\ ClustersOf(i) = {}

\* C10 as stated: for every input point set, dbscan with eps = 0 and
\* minPoints > 1 returns no cluster and every point is noise.
C10_EpsZeroNoCluster ==
    (dbResult # Pending /\ detectionParams.eps = 0 /\ detectionParams.minPoints > 1) =>
        (dbResult.clusters = <<>> /\ dbResult.noise = 1..Len(points))

\* The other input points at the very coordinates of point i.
Coincident(i) == {j \in 1..Len(points) : j # i /\ points[j] = points[i]}

\* C10 amended: dbscan with eps = 0 and minPoints > 1 returns no cluster
\* and marks every point noise, provided no input point has minPoints or
\* more other input points at its own coordinates.
C10_EpsZeroNoClusterAmended ==
    (/\ dbResult # Pending
     /\ detectionParams.eps = 0 /\ detectionParams.minPoints > 1
     /\ \A i \in 1..Len(points) :
           Cardinality(Coincident(i)) < detectionParams.minPoints) =>
        (dbResult.clusters = <<>> /\ dbResult.noise = 1..Len(points))

\* C10 witness: dbscan has run with eps = 0 and minPoints = 2 on points two
\* of which coincide, and every point is noise.
C10_Witness ==
    /\ dbResult # Pending
    /\ detectionParams.eps = 0 /\ detectionParams.minPoints = 2
    /\ \E i \in 1..Len(points) : Cardinality(Coincident(i)) = 1
    /\ \A i \in 1..Len(points) : Cardinality(Coincident(i)) < 2
    /\ dbResult.clusters = <<>> /\ dbResult.noise = 1..Len(points)

\* Fewer samples of this.scanData than minPoints pass the range filter.
FewValid == Len(FilterValid(scanData, 1)) < detectionParams.minPoints

\* C6: when detectTrees has run and fewer than minPoints samples pass the
\* range filter, the stored detection list (trees) is empty afterwards, even
\* if an earlier run had produced detections.
C6_FewValidGivesEmpty ==
    (lastHandler = "detectTrees" /\ FewValid) => trees = <<>>

\* The points all lie on one line (or there are fewer than two different
\* ones): every triple has a zero cross product.
Collinear(pts) ==
    \A i, j, k \in 1..Len(pts) :
        (pts[j].x - pts[i].x) * (pts[k].y - pts[i].y)
            = (pts[k].x - pts[i].x) * (pts[j].y - pts[i].y)

\* The clusters (as point sequences) a detectTrees run gets from dbscan.
RunClusters ==
    LET validPoints == FilterValid(scanData, 1)
        clusters    == dbscan(validPoints, detectionParams.eps,
                              detectionParams.minPoints).clusters
    IN  {ClusterPoints(validPoints, clusters[c]) : c \in 1..Len(clusters)}

\* C7: every detection produced by a detectTrees run has
\* minRadius <= radius <= maxRadius for the parameters of that run, has
\* diameter = 2 * radius, and comes from a cluster with at least minPoints
\* entries; a cluster whose fit fails (fewer than 3 entries, or collinear
\* points) yields no detection, and the run ends without an error.
C7_DetectionsWithinBounds ==
    (lastHandler = "detectTrees" /\ ~DetectReturnsEarly(scanData, detectionParams)) =>
        /\ \A k \in 1..Len(trees) :
              /\ trees[k].radius >= detectionParams.minRadius * FIXED_SCALE
              /\ trees[k].radius <= detectionParams.maxRadius * FIXED_SCALE
              /\ trees[k].diameter = 2 * trees[k].radius
              /\ trees[k].points \in RunClusters
              /\ Len(trees[k].points) >= detectionParams.minPoints
              /\ Len(trees[k].points) >= 3 /\ ~Collinear(trees[k].points)
        /\ Len(trees) <= Cardinality(RunClusters)

\* C7 witness: a run has just produced a detection of radius 1.00 and
\* diameter 2.00 under the bounds 1 <= radius <= 1.
C7_Witness ==
    /\ lastHandler = "detectTrees"
    /\ Len(trees) = 1
    /\ trees[1].radius = FIXED_SCALE /\ trees[1].diameter = 2 * FIXED_SCALE
    /\ detectionParams.minRadius = 1 /\ detectionParams.maxRadius = 1
    /\ Len(trees[1].points) >= detectionParams.minPoints


\* C5: under any interleaving of the interval timer, singleScan and the
\* asynchronous steps of performScan, at most one performScan cycle is in
\* flight at any time.
C5_OneCycleInFlight == InFlight <= 1

AllOnCircle(pts, c) == \A k \in 1..Len(pts) : pts[k] \in OnCircle(c)

\* Circle c as fitCircle returns it, in fixed-point numbers.
FittedAs(c) ==
    [kind   |-> "circle",
     center |-> [x |-> c.center.x * FIXED_SCALE, y |-> c.center.y * FIXED_SCALE],
     radius |-> c.radius * FIXED_SCALE]

\* C12: for 3 or more points that are not all collinear and lie exactly on
\* one circle, fitCircle returns that circle: the true centre, and as radius
\* (the mean distance of the points to the centre) the true radius.
C12_ExactCircleRecovered ==
    \A c \in TrueCircles :
        (/\ fitted # Pending
         /\ Len(fitPoints) >= 3 /\ ~Collinear(fitPoints)
         /\ AllOnCircle(fitPoints, c)) => fitted = FittedAs(c)

\* C12 witness: four points of the circle of radius 5 around (1, -1) that
\* lie in no half of it were fitted, and that circle came back.
C12_Witness ==
    \E c \in TrueCircles :
        /\ c.center = Pt(1, -1)
        /\ Len(fitPoints) = 4 /\ AllOnCircle(fitPoints, c)
        /\ \E i, j \in 1..4 : fitPoints[i].x < c.center.x - 2 /\ fitPoints[j].x > c.center.x + 2
        /\ \E i, j \in 1..4 : fitPoints[i].y < c.center.y - 2 /\ fitPoints[j].y > c.center.y + 2
        /\ fitted = FittedAs(c)

\* performMeasurement ran last and recorded nothing: nothing was read, the
\* chunk was too short, or parseData gave no measurement.
MeasurementFailed(read) == read # Pending /\ FirstMeasurement(read) = Null

\* C13: a scan cycle that fails (read error, frame shorter than 2134
\* characters, fewer than 3 markers) leaves the stored detections (trees)
\* and the stored scan data unchanged; a height packet that fails to parse
\* leaves heightHistory, measurementCount and currentHeight unchanged.
C13_FailureKeepsState ==
    /\ [][(lastHandler' = "performScanFailed" /\ cycles' # cycles) =>
            (trees' = trees /\ scanData' = scanData)]_vars
    /\ [][MeasurementFailed(lastRead') =>
            (/\ heightHistory' = heightHistory
             /\ measurementCount' = measurementCount
             /\ currentHeight' = currentHeight)]_vars

\* C13 witness (scanner): a scan cycle has just failed while a scan and a
\* detection of an earlier cycle are stored.
C13_Witness ==
    /\ lastHandler = "performScanFailed"
    /\ trees # <<>> /\ scanData # <<>>

\* performMeasurement ran last and read a chunk whose first byte is not
\* START_BYTE.
BadStartRead(read) ==
    /\ read # Pending /\ read # Null
    /\ Len(read.data) > 0 /\ At(read.data, 0) # START_BYTE

\* C14: parseData returns the error outcome (null, no measurement list)
\* whenever packet[0] is not 0xAA, whatever the rest of the packet holds,
\* and performMeasurement then records no height sample.
C14_BadStartRecordsNothing ==
    [][BadStartRead(lastRead') =>
        (/\ parseData(lastRead'.data) = Null
         /\ heightHistory' = heightHistory
         /\ measurementCount' = measurementCount
         /\ currentHeight' = currentHeight)]_vars

\* C14 witness: after a recorded measurement, a full-length packet with a
\* wrong start byte was read and the history still holds that one entry.
C14_Witness ==
    /\ BadStartRead(lastRead) /\ Len(lastRead.data) >= PACKET_SIZE
    /\ Len(heightHistory) = 1 /\ measurementCount = 1
    /\ currentHeight = heightHistory[1].height

\* The number of offsets o = 10 + 15k (k >= 0) with o + 15 <= len.
FullStrides(len) ==
    IF len < DATA_START_INDEX + DATA_INTERVAL THEN 0
    ELSE (len - DATA_START_INDEX) \div DATA_INTERVAL

\* C15: for a packet of length L with a valid start marker, parseData
\* returns exactly one measurement for each offset o = 10 + 15k with
\* o + 15 <= L, in increasing offset order (L = 25 gives one measurement).
C15_OneRecordPerFullStride ==
    (measurements # Pending /\ Len(packet) > 0 /\ At(packet, 0) = START_BYTE) =>
        /\ measurements # Null
        /\ Len(measurements.list) = FullStrides(Len(packet))
        /\ \A r \in 1..Len(measurements.list) :
              measurements.list[r] = ParseRecord(packet, RecordOffset(r), DATA_FIELDS)

\* The number of times the character at offset 12 of raw occurs among the
\* first n characters of raw.
MarkerCount(raw, n) ==
    Cardinality({i \in 0..(Min(n, Len(raw)) - 1) : At(raw, i) = At(raw, MARKER_OFFSET)})

\* C16 as stated: processLidarData throws exactly when the frame has fewer
\* than 2134 characters or the character at offset 12 occurs fewer than 3
\* times in the frame; for every other frame it returns a sample list.
C16_ThrowsExactlyWhenMalformed ==
    scanResult # Pending =>
        /\ scanResult = Threw <=>
              (Len(rawData) < EXPECTED_DATA_SIZE \/ MarkerCount(rawData, Len(rawData)) < 3)
        /\ scanResult # Threw => scanResult.kind = "samples"

\* C16 amended: processLidarData throws exactly when the frame has fewer
\* than 2134 characters or the character at offset 12 occurs fewer than 3
\* times among the first 2134 characters of the frame; for every other
\* frame it returns a sample list.
C16_ThrowsExactlyWhenMalformedAmended ==
    scanResult # Pending =>
        /\ scanResult = Threw <=>
              (Len(rawData) < EXPECTED_DATA_SIZE
               \/ MarkerCount(rawData, EXPECTED_DATA_SIZE) < 3)
        /\ scanResult # Threw => scanResult.kind = "samples"

\* C16 witness: a frame of more than 2134 characters whose third marker
\* lies behind the first 2134 characters made processLidarData throw.
C16_Witness ==
    /\ scanResult = Threw
    /\ Len(rawData) > EXPECTED_DATA_SIZE
    /\ MarkerCount(rawData, Len(rawData)) >= 3
    /\ MarkerCount(rawData, EXPECTED_DATA_SIZE) = 2

\* C17: in the sample list returned by convertToCoordinates the angle of
\* sample i depends only on i: angleDeg(i) = -120 + i * 240 / 682 (compared
\* here as numerators over 682), so angle(0) = -120 degrees, the angles are
\* strictly increasing with i, and no sample has an angle of 120 degrees or
\* more.
C17_AngleLinearInIndex ==
    scanResult.kind = "samples" =>
        LET samples == scanResult.samples
        IN  /\ \A k \in 1..Len(samples) :
                  /\ samples[k].angleNum = -120 * 682 + (k - 1) * 240
                  /\ samples[k].angleNum < END_ANGLE * TOTAL_POINTS
            /\ Len(samples) > 0 => samples[1].angleNum = START_ANGLE * TOTAL_POINTS
            /\ \A k \in 1..(Len(samples) - 1) :
                  samples[k].angleNum < samples[k + 1].angleNum

\* C17 witness: a well-formed frame was decoded and its last sample has
\* an angle above 116 degrees.
C17_Witness ==
    /\ scanResult.kind = "samples"
    /\ WellFormedFrame(rawData)
    /\ Len(scanResult.samples) > 0
    /\ scanResult.samples[Len(scanResult.samples)].angleNum > 116 * TOTAL_POINTS

\* The points within eps of point i, point i apart.
Near(i) ==
    {j \in 1..Len(points) :
        j # i /\ WithinEps(points[i], points[j], detectionParams.eps)}

RECURSIVE ReachFrom(_)
\* The points density-reachable from the points of R: R closed under the
\* neighbourhoods of its core points.
ReachFrom(R) ==
    LET more == R \cup UNION {Near(i) : i \in {r \in R : IsCore(r)}}
    IN  IF more = R THEN R ELSE ReachFrom(more)

\* C18: every member of a cluster returned by dbscan is density-reachable
\* from the cluster's seed: the seed is a core point, and every other
\* member lies within eps of a core point that is a member of the same
\* cluster and is reached from the seed through such points.
C18_MembersDensityReachable ==
    dbResult # Pending =>
        \A c \in 1..Len(dbResult.clusters) :
            LET cluster == dbResult.clusters[c]
                seed    == cluster[1]
            IN  /\ IsCore(seed)
                /\ Members(cluster) \subseteq ReachFrom({seed})
                /\ \A j \in Members(cluster) \ {seed} :
                      \E i \in Members(cluster) : IsCore(i) /\ j \in Near(i)

\* C18 witness: a cluster holds a member that is not within eps of the
\* seed, and a point that is no core point.
C18_Witness ==
    /\ dbResult # Pending
    /\ \E c \in 1..Len(dbResult.clusters) :
          LET cluster == dbResult.clusters[c]
          IN  /\ \E j \in Members(cluster) : j # cluster[1] /\ j \notin Near(cluster[1])
              /\ \E j \in Members(cluster) : ~IsCore(j)

\* C19: each cluster returned by dbscan is an ordered subsequence of the
\* input points: its members appear in input order and no point is listed
\* more than once in the same cluster.
C19_ClusterIsSubsequence ==
    dbResult # Pending =>
        \A c \in 1..Len(dbResult.clusters) :
            \A k \in 1..(Len(dbResult.clusters[c]) - 1) :
                dbResult.clusters[c][k] < dbResult.clusters[c][k + 1]

\* The samples of a sequence of samples.
SamplesOf(samples) == {samples[k] : k \in 1..Len(samples)}

\* The samples detectTrees hands to dbscan.
ValidPoints == FilterValid(scanData, 1)

\* C20: every sample handed to dbscan by detectTrees satisfies
\* minRange < distance < maxRange: the samples at exactly minRange or
\* exactly maxRange and the zero-distance samples never enter clustering,
\* and so are no point of a detection.
C20_OnlyRangedSamplesClustered ==
    (lastHandler = "detectTrees" /\ ~DetectReturnsEarly(scanData, detectionParams)) =>
        /\ \A p \in SamplesOf(ValidPoints) :
              MIN_RANGE < p.distance /\ p.distance < MAX_RANGE
        /\ \A p \in SamplesOf(scanData) :
              p.distance \in {0, MIN_RANGE, MAX_RANGE} => p \notin SamplesOf(ValidPoints)
        /\ \A t \in 1..Len(trees) : \A p \in SamplesOf(trees[t].points) :
              MIN_RANGE < p.distance /\ p.distance < MAX_RANGE

\* C20 witness: detectTrees ran on a scan that holds a sample at minRange,
\* one at maxRange and one at distance 0 and found a tree, with parameters
\* under which the sample at minRange lies within eps of a point of it.
C20_Witness ==
    /\ lastHandler = "detectTrees"
    /\ {0, MIN_RANGE, MAX_RANGE} \subseteq {p.distance : p \in SamplesOf(scanData)}
    /\ Len(trees) = 1
    /\ \E p \in SamplesOf(scanData) : \E q \in SamplesOf(trees[1].points) :
          p.distance = MIN_RANGE /\ WithinEps(p, q, detectionParams.eps)

\* C21: the neighbourhood of the density test counts the point itself with
\* the other points within eps, so a point with exactly minPoints - 1 other
\* points within eps is dense and is not marked noise.
C21_SelfCountedInDensityTest ==
    dbResult # Pending =>
        \A i \in 1..Len(points) :
            Cardinality(Near(i)) = detectionParams.minPoints - 1 =>
                i \notin dbResult.noise

\* v is the unsigned big-endian value b0 * 2^24 + b1 * 2^16 + b2 * 2^8 + b3
\* of four bytes: it is not negative, its top byte is b0 and the rest is the
\* value of the three low bytes (the sum itself is written without 2^31).
IsUnsignedBigEndian(v, b0, b1, b2, b3) ==
    /\ v >= 0
    /\ v \div 16777216 = b0
    /\ v % 16777216 = b1 * 65536 + b2 * 256 + b3

\* C22: the 4-byte peak intensity and the 4-byte integration count decoded
\* by parseData equal the unsigned big-endian value of their four bytes,
\* and so are never negative, for every byte value, a first byte of 0x80
\* or more included.
C22_PackedFieldsUnsigned ==
    measurements.kind = "list" =>
        \A r \in 1..Len(measurements.list) :
            LET o == RecordOffset(r)
            IN  /\ IsUnsignedBigEndian(measurements.list[r].peak,
                      At(packet, o + DATA_FIELDS.PEAK_1), At(packet, o + DATA_FIELDS.PEAK_2),
                      At(packet, o + DATA_FIELDS.PEAK_3), At(packet, o + DATA_FIELDS.PEAK_4))
                /\ IsUnsignedBigEndian(measurements.list[r].intg,
                      At(packet, o + DATA_FIELDS.INTG_1), At(packet, o + DATA_FIELDS.INTG_2),
                      At(packet, o + DATA_FIELDS.INTG_3), At(packet, o + DATA_FIELDS.INTG_4))

\* The number of times point p had its neighbourhood appended to a work-list.
AppendCount(p) == Cardinality({k \in 1..Len(run.appended) : run.appended[k] = p})

\* C23: expandCluster terminates for every point set: the work-list grows
\* while it is iterated, but the neighbourhood of a point is appended at
\* most once, on the first visit of the point, so every expandCluster call
\* returns and dbscan returns.
C23_ExpandClusterTerminates ==
    /\ [](\A p \in 1..Len(points) : AppendCount(p) <= 1)
    /\ (run.pc = "expand") ~> (run.pc = "outer")
    /\ <>(run.pc = "done")

\* C23 witness: dbscan has returned after a run in which the work-list grew
\* under iteration, two neighbourhoods having been appended to it.
C23_Witness ==
    /\ run.pc = "done"
    /\ Len(run.appended) >= 2

\* The step-by-step run returns what dbscan returns.
RunAgreesWithDbscan ==
    run.pc = "done" =>
        dbResult = [kind |-> "clusters"] @@
                   dbscan(points, detectionParams.eps, detectionParams.minPoints)

\* A step in which the callback of an interval timer has called performScan.
TimerStartedCycle ==
    /\ lastStart' = "timer"
    /\ cycles'.write = cycles.write + 1

\* C24: once pauseScanning or stopScanning has set isScanning to false, no
\* interval timer starts a performScan cycle until startScanning is called
\* again, not even a timer that an earlier startScanning left uncancelled:
\* a cycle is started by a timer only while isScanning is true.
C24_NoTimerCycleWhilePaused ==
    [][TimerStartedCycle => isScanning]_vars

\* C24 witness: scanning is paused while a timer that startScanning left
\* uncancelled is still set, after a timer has started a cycle.
C24_Witness ==
    /\ ~isScanning /\ isConnected
    /\ scanInterval = 0 /\ timers # {}
    /\ lastStart = "timer"

\* C25: in every reachable state of the session, under any interleaving of
\* connect, disconnect, startScanning, pauseScanning and their completions,
\* isScanning is true only if isConnected is true.
C25_ScanningOnlyWhenConnected ==
    isScanning => isConnected

\* C26: for a group whose first character is '0' the 2-character branch of
\* decodeSCIP returns what the 3-character formula returns for the whole
\* group, so for every group with valid digits decodeSCIP equals the 18-bit
\* MSB-first decode of all three characters.
C26_BranchesAgree ==
    (decoded # Pending /\ \A k \in 1..3 : ValidDigit(rangeenc[k])) =>
        /\ (rangeenc[1] = CHAR_0 => DecodeTwo(rangeenc) = DecodeThree(rangeenc))
        /\ decoded = DecodeThree(rangeenc)
        /\ ~decoded.nan
        /\ decoded.value = 4096 * DigSub(rangeenc[1])
                           + 64 * DigSub(rangeenc[2]) + DigSub(rangeenc[3])

\* C26 witness: a group with first character '0' and mixed digits (21, 42)
\* has been decoded, to 21 * 64 + 42.
C26_Witness ==
    /\ rangeenc = <<CHAR_0, CHAR_0 + 21, CHAR_0 + 42>>
    /\ decoded # Pending
    /\ decoded.value = 1386

\* The records of a history.
RecordsOf(history) == {history[k] : k \in 1..Len(history)}

\* The number of most recent arrivals a history of maxHistorySize holds.
Kept == IF Len(arrived) < maxHistorySize THEN Len(arrived) ELSE maxHistorySize

\* C27: after any sequence of scan_data, tree_data and height_data
\* messages dataHistory holds at most maxHistorySize records, and they are
\* the most recently added records in arrival order; status_update and ping
\* messages never add a record.
C27_HistoryBoundedMostRecent ==
    /\ [](/\ Len(dataHistory) <= maxHistorySize
          /\ Len(dataHistory) >= Kept
          /\ SliceLast(dataHistory, Kept) = SliceLast(arrived, Kept))
    /\ [][lastRelay'.type \in {"status_update", "ping"} => dataHistory' = dataHistory]_vars

\* The message types handleClientMessage relays.
RelayedTypes == {"scan_data", "tree_data", "height_data", "status_update"}

\* C28: a scan_data, tree_data, height_data or status_update message
\* received from client c is sent to every other registered client whose
\* socket is open, and to no one else: never back to c.
C28_RelayedToOpenOthers ==
    [][(lastRelay'.n = lastRelay.n + 1 /\ lastRelay'.type \in RelayedTypes) =>
          /\ lastRelay'.to =
                {c \in ClientIds : clients[c] = "OPEN"} \ {lastRelay'.sender}
          /\ lastRelay'.sender \notin lastRelay'.to]_vars

\* C28 witness: a message of a client whose own socket is open has been
\* relayed to another client.
C28_Witness ==
    /\ lastRelay.type \in RelayedTypes
    /\ clients[lastRelay.sender] = "OPEN"
    /\ lastRelay.to # {}

\* C29: a record leaves dataHistory only through oldest-first eviction: a
\* record received before the load of the file completes is still in
\* dataHistory after the load has completed.
C29_LoadKeepsReceivedRecords ==
    [][(loadPc = "reading" /\ loadPc' = "done") =>
          RecordsOf(dataHistory) \subseteq RecordsOf(dataHistory')]_vars

\* C30: in every reachable state of the height sensor session, after any
\* sequence of performMeasurement, clearHeightData, resetHeightChart and
\* generateTestHeightData, measurementCount equals the number of entries in
\* heightHistory.
C30_CountEqualsHistoryLength ==
    measurementCount = Len(heightHistory)

=============================================================================
